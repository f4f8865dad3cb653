---------------------- MODULE InferenceScheduler_proofs ----------------------
(***************************************************************************)
(* Proofs about the inference scheduler, for every set of sessions,        *)
(* utterances and callers, any limit of the queues and any number of jobs  *)
(* and generations: every unresolved job has its place, admission is       *)
(* bounded, no cancelled or repeated work delivers a result, and nothing   *)
(* is left when shutdown has returned.                                     *)
(***************************************************************************)
EXTENDS InferenceScheduler, FiniteSetTheorems, WellFoundedInduction, TLAPS

----------------------------------------------------------------------------
(* The inductive invariant.                                                *)

Submitted == 1 .. Len(identity)
Busy == {"work", "gpu", "resume"}

\* The types, with those of the sequences.
StateTypes == SchedulerTypeOK /\ identity \in Seq(Identities) /\ gpu \in Seq(Jobs)

\* A job that was not submitted is nowhere; the jobs of a queue are queued and of its
\* direction, and every queued job is in its queue.
QueueShape ==
  /\ \A j \in Jobs : j \notin Submitted => step[j] = "none" /\ future[j] = "none"
  /\ \A d \in Directions : \A j \in queue[d] :
       j \in Submitted /\ identity[j].d = d /\ step[j] = "queued"
  /\ \A j \in Submitted : step[j] = "queued" => j \in queue[identity[j].d]

\* The active job of a direction is of that direction and runs, and a job that runs is the
\* active one of its direction.
ActiveShape ==
  /\ \A d \in Directions : active[d] # 0 =>
       active[d] \in Submitted /\ identity[active[d]].d = d /\ step[active[d]] \in Busy
  /\ \A j \in Submitted : step[j] \in Busy => active[identity[j].d] = j

\* A future is unresolved from submission until the job has ended or was dropped.
FutureShape ==
  \A j \in Submitted : future[j] = "pending" <=> step[j] \in Busy \cup {"queued"}

\* The jobs in the executor wait for it, and each is there once.
NativeShape ==
  /\ \A i \in 1 .. Len(gpu) : step[gpu[i]] = "gpu"
  /\ \A i, k \in 1 .. Len(gpu) : gpu[i] = gpu[k] => i = k

\* Generations in use were allocated before, and a queued job has its session.
GenerationShape ==
  /\ \A s \in Sessions : sgen[s] < next_generation
  /\ \A s \in Sessions, u \in Utterances : ugen[s][u] < next_generation
  /\ \A j \in Submitted : identity[j].ug # 0 /\ identity[j].ug < next_generation
  /\ \A j \in Submitted : step[j] = "queued" => sgen[identity[j].s] # 0

\* A job that delivered has terminalized its utterance, for good.
ResultShape ==
  \A j \in Submitted : future[j] = "result" => ugen[identity[j].s][identity[j].u] # identity[j].ug

\* What the cleanup has established by each of its awaits.
CleanupShape ==
  /\ cleanup # "none" => closed
  /\ cleanup \in {"gather", "join", "done"} =>
       /\ \A s \in Sessions : sgen[s] = 0
       /\ \A d \in Directions : queue[d] = {}
       /\ Running \subseteq gathered
  /\ cleanup \in {"join", "done"} => Running = {}
  /\ \A c \in Callers : Left(c) => cleanup = "done"

SchedulerInv ==
  /\ StateTypes /\ QueueShape /\ ActiveShape /\ FutureShape /\ NativeShape /\ GenerationShape
  /\ AdmissionBound /\ ResultsAreCurrent /\ ResultShape /\ CleanupShape

----------------------------------------------------------------------------
(* Types of the parts.                                                     *)

\* The elements of a sequence.
LEMMA RangeOfSeq ==
    ASSUME NEW S, NEW q \in Seq(S)
    PROVE  Range(q) \subseteq S /\ Len(q) \in Nat /\ \A i \in 1 .. Len(q) : q[i] \in S
  BY DEF Range

\* The submitted jobs and their identities.
LEMMA JobFacts ==
    ASSUME StateTypes
    PROVE  /\ Len(identity) \in Nat /\ Submitted \subseteq Jobs
           /\ \A j \in Submitted :
                /\ identity[j] \in Identities
                /\ identity[j].s \in Sessions /\ identity[j].u \in Utterances
                /\ identity[j].d \in Directions /\ identity[j].ug \in Generations
  <1>1. Len(identity) \in Nat /\ \A j \in Submitted : identity[j] \in Identities
    BY RangeOfSeq DEF StateTypes, Submitted
  <1>2. Submitted \subseteq Jobs
    BY <1>1, SchedulerAssumption DEF StateTypes, SchedulerTypeOK, Submitted, Jobs
  <1> QED
    BY <1>1, <1>2 DEF Identities

\* The queues are finite.
LEMMA QueueFacts ==
    ASSUME StateTypes, NEW d \in Directions
    PROVE  IsFiniteSet(queue[d]) /\ Cardinality(queue[d]) \in Nat
  <1>1. IsFiniteSet(Jobs)
    BY SchedulerAssumption, FS_Interval DEF Jobs
  <1>2. queue[d] \in SUBSET Jobs
    BY DEF StateTypes, SchedulerTypeOK
  <1> QED
    BY <1>1, <1>2, FS_Subset, FS_CardinalityType

\* A job that was submitted is the one whose step says so.
LEMMA StepFacts ==
    ASSUME SchedulerInv, NEW j \in Jobs, step[j] # "none"
    PROVE  j \in Submitted
  BY DEF SchedulerInv, QueueShape

\* A step that only allocates a generation: nothing in use has it.
LEMMA GenerationsGrow ==
    ASSUME SchedulerInv, UNCHANGED <<identity, step, future>>,
           next_generation' = next_generation + 1,
           \A t \in Sessions : sgen'[t] = sgen[t] \/ sgen'[t] = next_generation,
           \A t \in Sessions, v \in Utterances :
             ugen'[t][v] = ugen[t][v] \/ ugen'[t][v] = 0 \/ ugen'[t][v] = next_generation
    PROVE  GenerationShape' /\ ResultShape'
  <1> USE DEF SchedulerInv
  <1>1. /\ next_generation \in Nat \ {0}
        /\ \A t \in Sessions : sgen[t] \in Nat
        /\ \A t \in Sessions, v \in Utterances : ugen[t][v] \in Nat
        /\ \A j \in Submitted : identity[j].ug \in Nat
    BY SchedulerAssumption, JobFacts DEF StateTypes, SchedulerTypeOK, Generations
  <1>2. Submitted' = Submitted
    BY DEF Submitted
  <1>3. \A t \in Sessions : sgen'[t] < next_generation'
    BY <1>1 DEF GenerationShape
  <1>4. \A t \in Sessions, v \in Utterances : ugen'[t][v] < next_generation'
    BY <1>1 DEF GenerationShape
  <1>5. \A j \in Submitted : identity[j].ug # 0 /\ identity[j].ug < next_generation'
    BY <1>1 DEF GenerationShape
  <1>6. \A j \in Submitted : step[j] = "queued" => sgen'[identity[j].s] # 0
    BY <1>1, JobFacts DEF GenerationShape
  <1>7. GenerationShape'
    BY <1>2, <1>3, <1>4, <1>5, <1>6 DEF GenerationShape
  <1>8. ResultShape'
    BY <1>1, <1>2, JobFacts DEF ResultShape, GenerationShape
  <1> QED
    BY <1>7, <1>8

\* A session is opened with a generation that nothing has had.
LEMMA OpenSessionKeeps ==
    ASSUME NEW s \in Sessions, NEW d \in Directions
    PROVE  SchedulerInv /\ open_session(s, d) => SchedulerInv'
  <1> SUFFICES ASSUME SchedulerInv, open_session(s, d) PROVE SchedulerInv'
    OBVIOUS
  <1> USE JobFacts DEF SchedulerInv
  <1> USE DEF open_session, sessionVars, jobVars, dispatchVars, shutdownVars, Submitted, Busy
  <1>1. StateTypes'
    BY SchedulerAssumption DEF StateTypes, SchedulerTypeOK, Generations
  <1>2. QueueShape' /\ ActiveShape' /\ FutureShape'
    BY DEF StateTypes, SchedulerTypeOK, QueueShape, ActiveShape, FutureShape
  <1>3. NativeShape'
    BY DEF StateTypes, SchedulerTypeOK, NativeShape
  <1>4. GenerationShape' /\ ResultShape'
    BY SchedulerAssumption, GenerationsGrow DEF StateTypes, SchedulerTypeOK
  <1>5. AdmissionBound' /\ ResultsAreCurrent'
    BY DEF AdmissionBound, ResultsAreCurrent
  <1>6. CleanupShape'
    BY DEF StateTypes, SchedulerTypeOK, CleanupShape, Running, Left
  <1> QED
    BY <1>1, <1>2, <1>3, <1>4, <1>5, <1>6

\* An utterance is opened with a generation that nothing has had.
LEMMA OpenUtteranceKeeps ==
    ASSUME NEW s \in Sessions, NEW u \in Utterances
    PROVE  SchedulerInv /\ open_utterance(s, u) => SchedulerInv'
  <1> SUFFICES ASSUME SchedulerInv, open_utterance(s, u) PROVE SchedulerInv'
    OBVIOUS
  <1> USE JobFacts DEF SchedulerInv
  <1> USE DEF open_utterance, sessionVars, jobVars, dispatchVars, shutdownVars, Submitted, Busy
  <1>1. StateTypes'
    BY SchedulerAssumption DEF StateTypes, SchedulerTypeOK, Generations
  <1>2. QueueShape' /\ ActiveShape' /\ FutureShape'
    BY DEF StateTypes, SchedulerTypeOK, QueueShape, ActiveShape, FutureShape
  <1>3. NativeShape'
    BY DEF StateTypes, SchedulerTypeOK, NativeShape
  <1>4. GenerationShape' /\ ResultShape'
    BY SchedulerAssumption, GenerationsGrow DEF StateTypes, SchedulerTypeOK
  <1>5. AdmissionBound' /\ ResultsAreCurrent'
    BY DEF AdmissionBound, ResultsAreCurrent
  <1>6. CleanupShape'
    BY DEF StateTypes, SchedulerTypeOK, CleanupShape, Running, Left
  <1> QED
    BY <1>1, <1>2, <1>3, <1>4, <1>5, <1>6

\* A caller of shutdown waits.
LEMMA ShutdownKeeps ==
    ASSUME NEW c \in Callers
    PROVE  SchedulerInv /\ shutdown(c) => SchedulerInv'
  <1> SUFFICES ASSUME SchedulerInv, shutdown(c) PROVE SchedulerInv'
    OBVIOUS
  <1> USE JobFacts DEF SchedulerInv
  <1> USE DEF shutdown, sessionVars, jobVars, dispatchVars, shutdownVars, Submitted, Busy
  <1>1. StateTypes'
    BY SchedulerAssumption DEF StateTypes, SchedulerTypeOK, Generations
  <1>2. QueueShape' /\ ActiveShape' /\ FutureShape'
    BY DEF StateTypes, SchedulerTypeOK, QueueShape, ActiveShape, FutureShape
  <1>3. NativeShape'
    BY DEF StateTypes, SchedulerTypeOK, NativeShape
  <1>4. GenerationShape' /\ ResultShape'
    BY DEF StateTypes, SchedulerTypeOK, Generations, GenerationShape, ResultShape
  <1>5. AdmissionBound' /\ ResultsAreCurrent'
    BY DEF AdmissionBound, ResultsAreCurrent
  <1>6. CleanupShape'
    BY DEF StateTypes, SchedulerTypeOK, CleanupShape, Running, Left
  <1> QED
    BY <1>1, <1>2, <1>3, <1>4, <1>5, <1>6

\* A caller that is cancelled goes on waiting.
LEMMA CancelCallerKeeps ==
    ASSUME NEW c \in Callers
    PROVE  SchedulerInv /\ CancelCaller(c) => SchedulerInv'
  <1> SUFFICES ASSUME SchedulerInv, CancelCaller(c) PROVE SchedulerInv'
    OBVIOUS
  <1> USE JobFacts DEF SchedulerInv
  <1> USE DEF CancelCaller, sessionVars, jobVars, dispatchVars, shutdownVars, Submitted, Busy,
        AfterCancel
  <1>1. StateTypes'
    BY SchedulerAssumption DEF StateTypes, SchedulerTypeOK, Generations
  <1>2. QueueShape' /\ ActiveShape' /\ FutureShape'
    BY DEF StateTypes, SchedulerTypeOK, QueueShape, ActiveShape, FutureShape
  <1>3. NativeShape'
    BY DEF StateTypes, SchedulerTypeOK, NativeShape
  <1>4. GenerationShape' /\ ResultShape'
    BY DEF StateTypes, SchedulerTypeOK, Generations, GenerationShape, ResultShape
  <1>5. AdmissionBound' /\ ResultsAreCurrent'
    BY DEF AdmissionBound, ResultsAreCurrent
  <1>6. CleanupShape'
    BY DEF StateTypes, SchedulerTypeOK, CleanupShape, Running, Left
  <1> QED
    BY <1>1, <1>2, <1>3, <1>4, <1>5, <1>6

\* A caller leaves when the cleanup is done.
LEMMA ShutdownReturnsKeeps ==
    ASSUME NEW c \in Callers
    PROVE  SchedulerInv /\ ShutdownReturns(c) => SchedulerInv'
  <1> SUFFICES ASSUME SchedulerInv, ShutdownReturns(c) PROVE SchedulerInv'
    OBVIOUS
  <1> USE JobFacts DEF SchedulerInv
  <1> USE DEF ShutdownReturns, sessionVars, jobVars, dispatchVars, shutdownVars, Submitted, Busy
  <1>1. StateTypes'
    BY SchedulerAssumption DEF StateTypes, SchedulerTypeOK, Generations
  <1>2. QueueShape' /\ ActiveShape' /\ FutureShape'
    BY DEF StateTypes, SchedulerTypeOK, QueueShape, ActiveShape, FutureShape
  <1>3. NativeShape'
    BY DEF StateTypes, SchedulerTypeOK, NativeShape
  <1>4. GenerationShape' /\ ResultShape'
    BY DEF StateTypes, SchedulerTypeOK, Generations, GenerationShape, ResultShape
  <1>5. AdmissionBound' /\ ResultsAreCurrent'
    BY DEF AdmissionBound, ResultsAreCurrent
  <1>6. CleanupShape'
    BY DEF StateTypes, SchedulerTypeOK, CleanupShape, Running, Left
  <1> QED
    BY <1>1, <1>2, <1>3, <1>4, <1>5, <1>6

\* The tasks that ran when the cleanup began have ended, and no other runs.
LEMMA GatherReturnsKeeps ==
    SchedulerInv /\ GatherReturns => SchedulerInv'
  <1> SUFFICES ASSUME SchedulerInv, GatherReturns PROVE SchedulerInv'
    OBVIOUS
  <1> USE JobFacts DEF SchedulerInv
  <1> USE DEF GatherReturns, sessionVars, jobVars, dispatchVars, shutdownVars, Submitted, Busy
  <1>1. StateTypes'
    BY SchedulerAssumption DEF StateTypes, SchedulerTypeOK, Generations
  <1>2. QueueShape' /\ ActiveShape' /\ FutureShape'
    BY DEF StateTypes, SchedulerTypeOK, QueueShape, ActiveShape, FutureShape
  <1>3. NativeShape'
    BY DEF StateTypes, SchedulerTypeOK, NativeShape
  <1>4. GenerationShape' /\ ResultShape'
    BY DEF StateTypes, SchedulerTypeOK, Generations, GenerationShape, ResultShape
  <1>5. AdmissionBound' /\ ResultsAreCurrent'
    BY DEF AdmissionBound, ResultsAreCurrent
  <1>6. CleanupShape'
    BY DEF StateTypes, SchedulerTypeOK, CleanupShape, Running, Left
  <1> QED
    BY <1>1, <1>2, <1>3, <1>4, <1>5, <1>6

\* The cleanup ends.
LEMMA ExecutorsShutDownKeeps ==
    SchedulerInv /\ ExecutorsShutDown => SchedulerInv'
  <1> SUFFICES ASSUME SchedulerInv, ExecutorsShutDown PROVE SchedulerInv'
    OBVIOUS
  <1> USE JobFacts DEF SchedulerInv
  <1> USE DEF ExecutorsShutDown, sessionVars, jobVars, dispatchVars, shutdownVars, Submitted,
        Busy
  <1>1. StateTypes'
    BY SchedulerAssumption DEF StateTypes, SchedulerTypeOK, Generations
  <1>2. QueueShape' /\ ActiveShape' /\ FutureShape'
    BY DEF StateTypes, SchedulerTypeOK, QueueShape, ActiveShape, FutureShape
  <1>3. NativeShape'
    BY DEF StateTypes, SchedulerTypeOK, NativeShape
  <1>4. GenerationShape' /\ ResultShape'
    BY DEF StateTypes, SchedulerTypeOK, Generations, GenerationShape, ResultShape
  <1>5. AdmissionBound' /\ ResultsAreCurrent'
    BY DEF AdmissionBound, ResultsAreCurrent
  <1>6. CleanupShape'
    BY DEF StateTypes, SchedulerTypeOK, CleanupShape, Running, Left
  <1> QED
    BY <1>1, <1>2, <1>3, <1>4, <1>5, <1>6

\* A job goes on with its work.
LEMMA GpuResultKeeps ==
    ASSUME NEW j \in Jobs
    PROVE  SchedulerInv /\ GpuResult(j) => SchedulerInv'
  <1> SUFFICES ASSUME SchedulerInv, GpuResult(j) PROVE SchedulerInv'
    OBVIOUS
  <1> USE JobFacts DEF SchedulerInv
  <1> USE DEF GpuResult, sessionVars, jobVars, dispatchVars, shutdownVars, Submitted, Busy
  <1>1. StateTypes'
    BY SchedulerAssumption DEF StateTypes, SchedulerTypeOK, Generations
  <1>2. QueueShape' /\ ActiveShape' /\ FutureShape'
    BY DEF StateTypes, SchedulerTypeOK, QueueShape, ActiveShape, FutureShape
  <1>3. NativeShape'
    BY DEF StateTypes, SchedulerTypeOK, NativeShape
  <1>4. GenerationShape' /\ ResultShape'
    BY DEF StateTypes, SchedulerTypeOK, Generations, GenerationShape, ResultShape
  <1>5. AdmissionBound' /\ ResultsAreCurrent'
    BY DEF AdmissionBound, ResultsAreCurrent
  <1>6. CleanupShape'
    BY DEF StateTypes, SchedulerTypeOK, CleanupShape, Running, Left
  <1> QED
    BY <1>1, <1>2, <1>3, <1>4, <1>5, <1>6

\* The task of a job is forgotten.
LEMMA TaskDoneKeeps ==
    ASSUME NEW j \in Jobs
    PROVE  SchedulerInv /\ _task_done(j) => SchedulerInv'
  <1> SUFFICES ASSUME SchedulerInv, _task_done(j) PROVE SchedulerInv'
    OBVIOUS
  <1> USE JobFacts DEF SchedulerInv
  <1> USE DEF _task_done, sessionVars, jobVars, dispatchVars, shutdownVars, Submitted, Busy,
        DoneSignals, SetSignal
  <1>1. StateTypes'
    BY SchedulerAssumption DEF StateTypes, SchedulerTypeOK, Generations
  <1>2. QueueShape' /\ ActiveShape' /\ FutureShape'
    BY DEF StateTypes, SchedulerTypeOK, QueueShape, ActiveShape, FutureShape
  <1>3. NativeShape'
    BY DEF StateTypes, SchedulerTypeOK, NativeShape
  <1>4. GenerationShape' /\ ResultShape'
    BY DEF StateTypes, SchedulerTypeOK, Generations, GenerationShape, ResultShape
  <1>5. AdmissionBound' /\ ResultsAreCurrent'
    BY DEF AdmissionBound, ResultsAreCurrent
  <1>6. CleanupShape'
    BY DEF StateTypes, SchedulerTypeOK, CleanupShape, Running, Left
  <1> QED
    BY <1>1, <1>2, <1>3, <1>4, <1>5, <1>6

----------------------------------------------------------------------------
(* Native operations.                                                      *)

\* A job that runs goes from one step of its run to another: its homes stay.
LEMMA BusyStepKeeps ==
    ASSUME SchedulerInv, NEW j \in Jobs, step[j] \in Busy, NEW b \in Busy,
           step' = [step EXCEPT ![j] = b],
           UNCHANGED <<sessionVars, identity, future, cancelled, dispatchVars, shutdownVars>>
    PROVE  /\ QueueShape' /\ ActiveShape' /\ FutureShape' /\ GenerationShape' /\ ResultShape'
           /\ AdmissionBound' /\ ResultsAreCurrent' /\ CleanupShape'
           /\ step' \in [Jobs -> {"none", "queued", "work", "gpu", "resume", "done", "gone"}]
           /\ Running' = Running
  <1> USE JobFacts DEF SchedulerInv, sessionVars, dispatchVars, shutdownVars
  <1>1. /\ step' \in [Jobs -> {"none", "queued", "work", "gpu", "resume", "done", "gone"}]
        /\ step'[j] = b /\ \A k \in Jobs \ {j} : step'[k] = step[k]
        /\ \A k \in Jobs : step'[k] \in Busy <=> step[k] \in Busy
        /\ \A k \in Jobs : step'[k] = "queued" <=> step[k] = "queued"
        /\ \A k \in Jobs : step'[k] = "none" <=> step[k] = "none"
        /\ Submitted' = Submitted
    BY DEF StateTypes, SchedulerTypeOK, Busy, Submitted
  <1>2. Running' = Running
    BY <1>1 DEF Running, Busy
  <1>3. QueueShape'
    BY <1>1 DEF QueueShape, StateTypes, SchedulerTypeOK
  <1>4. ActiveShape'
    BY <1>1 DEF ActiveShape
  <1>5. FutureShape'
    BY <1>1 DEF FutureShape
  <1>6. GenerationShape' /\ ResultShape'
    BY <1>1 DEF GenerationShape, ResultShape
  <1>7. AdmissionBound' /\ ResultsAreCurrent'
    BY DEF AdmissionBound, ResultsAreCurrent
  <1>8. CleanupShape'
    BY <1>2 DEF CleanupShape, Left
  <1> QED
    BY <1>1, <1>2, <1>3, <1>4, <1>5, <1>6, <1>7, <1>8

\* A job hands an operation to the executor, which did not have one of it.
LEMMA RunGpuKeeps ==
    ASSUME NEW j \in Jobs
    PROVE  SchedulerInv /\ run_gpu(j) => SchedulerInv'
  <1> SUFFICES ASSUME SchedulerInv, run_gpu(j) PROVE SchedulerInv'
    OBVIOUS
  <1> USE DEF SchedulerInv
  <1>1. /\ step[j] = "work" /\ natives[j] < MaxNative
        /\ natives' = [natives EXCEPT ![j] = natives[j] + 1]
        /\ gpu' = Append(gpu, j) /\ step' = [step EXCEPT ![j] = "gpu"]
        /\ UNCHANGED <<sessionVars, identity, future, cancelled, dispatchVars, shutdownVars>>
    BY DEF run_gpu
  <1>2. /\ QueueShape' /\ ActiveShape' /\ FutureShape' /\ GenerationShape' /\ ResultShape'
        /\ AdmissionBound' /\ ResultsAreCurrent' /\ CleanupShape'
        /\ step' \in [Jobs -> {"none", "queued", "work", "gpu", "resume", "done", "gone"}]
    BY <1>1, BusyStepKeeps DEF Busy
  <1>3. gpu' \in Seq(Jobs) /\ Range(gpu') \subseteq Jobs
    <2>1. gpu' \in Seq(Jobs)
      BY <1>1 DEF StateTypes
    <2> QED
      BY <2>1, RangeOfSeq
  <1>4. natives' \in [Jobs -> 0 .. MaxNative]
    BY <1>1, SchedulerAssumption DEF StateTypes, SchedulerTypeOK
  <1>5. StateTypes'
    BY <1>1, <1>2, <1>3, <1>4
      DEF StateTypes, SchedulerTypeOK, sessionVars, dispatchVars, shutdownVars
  <1>6. NativeShape'
    <2>1. /\ Len(gpu) \in Nat /\ Len(gpu') = Len(gpu) + 1 /\ gpu'[Len(gpu) + 1] = j
          /\ \A i \in 1 .. Len(gpu) : gpu'[i] = gpu[i] /\ gpu[i] \in Jobs
      BY <1>1 DEF StateTypes
    <2>2. step'[j] = "gpu" /\ \A k \in Jobs \ {j} : step'[k] = step[k]
      BY <1>1 DEF StateTypes, SchedulerTypeOK
    <2>3. \A i \in 1 .. Len(gpu) : gpu[i] # j
      BY <1>1 DEF NativeShape
    <2>4. \A i \in 1 .. Len(gpu') : i \in 1 .. Len(gpu) \/ i = Len(gpu) + 1
      BY <2>1
    <2> QED
      BY <2>1, <2>2, <2>3, <2>4 DEF NativeShape
  <1> QED
    BY <1>2, <1>5, <1>6

\* The operation that ran ends; the others of the executor still wait.
LEMMA RunNativeKeeps == SchedulerInv /\ _run_native => SchedulerInv'
  <1> SUFFICES ASSUME SchedulerInv, _run_native PROVE SchedulerInv'
    OBVIOUS
  <1> USE DEF SchedulerInv
  <1> DEFINE j == Head(gpu)
  <1>1. /\ gpu # <<>> /\ gpu' = Tail(gpu) /\ step' = [step EXCEPT ![j] = "resume"]
        /\ UNCHANGED <<sessionVars, identity, future, cancelled, natives, dispatchVars,
                       shutdownVars>>
    BY DEF _run_native
  <1>2. /\ j \in Jobs /\ step[j] = "gpu"
        /\ gpu' \in Seq(Jobs) /\ Len(gpu') = Len(gpu) - 1 /\ Len(gpu) \in Nat \ {0}
        /\ \A i \in 1 .. Len(gpu') : gpu'[i] = gpu[i + 1] /\ i + 1 \in 1 .. Len(gpu) /\ gpu[i + 1] # j
    <2>1. gpu \in Seq(Jobs) /\ Len(gpu) \in Nat \ {0} /\ j = gpu[1] /\ 1 \in 1 .. Len(gpu)
      BY <1>1 DEF StateTypes
    <2>2. j \in Jobs /\ step[j] = "gpu"
      BY <2>1, RangeOfSeq DEF NativeShape
    <2>3. gpu' \in Seq(Jobs) /\ Len(gpu') = Len(gpu) - 1
      BY <1>1, <2>1
    <2>4. \A i \in 1 .. Len(gpu') : gpu'[i] = gpu[i + 1] /\ i + 1 \in 1 .. Len(gpu)
      BY <1>1, <2>1
    <2>5. \A i \in 1 .. Len(gpu') : gpu[i + 1] # j
      BY <2>1, <2>3, <2>4 DEF NativeShape
    <2> QED
      BY <2>1, <2>2, <2>3, <2>4, <2>5
  <1> HIDE DEF j
  <1>3. /\ QueueShape' /\ ActiveShape' /\ FutureShape' /\ GenerationShape' /\ ResultShape'
        /\ AdmissionBound' /\ ResultsAreCurrent' /\ CleanupShape'
        /\ step' \in [Jobs -> {"none", "queued", "work", "gpu", "resume", "done", "gone"}]
    BY <1>1, <1>2, BusyStepKeeps DEF Busy
  <1>4. Range(gpu') \subseteq Jobs
    BY <1>2, RangeOfSeq
  <1>5. StateTypes'
    BY <1>1, <1>2, <1>3, <1>4
      DEF StateTypes, SchedulerTypeOK, sessionVars, dispatchVars, shutdownVars
  <1>6. NativeShape'
    <2>1. \A i \in 1 .. Len(gpu') : step'[gpu'[i]] = "gpu"
      BY <1>1, <1>2 DEF NativeShape, StateTypes, SchedulerTypeOK
    <2>2. \A i, k \in 1 .. Len(gpu') : gpu'[i] = gpu'[k] => i = k
      <3> SUFFICES ASSUME NEW i \in 1 .. Len(gpu'), NEW k \in 1 .. Len(gpu'), gpu'[i] = gpu'[k]
                   PROVE  i = k
        OBVIOUS
      <3>1. i + 1 = k + 1
        BY <1>2 DEF NativeShape
      <3> QED
        BY <1>2, <3>1
    <2> QED
      BY <2>1, <2>2 DEF NativeShape
  <1> QED
    BY <1>3, <1>5, <1>6

----------------------------------------------------------------------------
(* submit                                                                  *)

\* The new job is queued where admission left it a place.
LEMMA SubmitKeeps ==
    ASSUME NEW s \in Sessions, NEW u \in Utterances
    PROVE  SchedulerInv /\ submit(s, u) => SchedulerInv'
  <1> SUFFICES ASSUME SchedulerInv, submit(s, u) PROVE SchedulerInv'
    OBVIOUS
  <1> USE DEF SchedulerInv
  <1> DEFINE d == sdir[s]
             j == Len(identity) + 1
             id == [s |-> s, u |-> u, d |-> d, sg |-> sgen[s], ug |-> ugen[s][u]]
  <1>1. /\ ~closed /\ sgen[s] # 0 /\ ugen[s][u] # 0
        /\ Cardinality(queue[d]) < AdmissionCapacity(d) /\ j <= MaxJobs
        /\ identity' = Append(identity, id)
        /\ future' = [future EXCEPT ![j] = "pending"]
        /\ step' = [step EXCEPT ![j] = "queued"]
        /\ queue' = [queue EXCEPT ![d] = queue[d] \cup {j}]
        /\ dispatcher' \in {"wait", dispatcher} /\ signal' = TRUE
        /\ UNCHANGED <<sdir, sgen, ugen, next_generation, cancelled, natives, gpu, active,
                       round_robin, closed, cleanup, gathered, caller>>
    BY DEF submit, sessionVars, shutdownVars
  <1>2. /\ d \in Directions /\ j \in Jobs /\ j \notin Submitted /\ step[j] = "none"
        /\ id \in Identities /\ id.s = s /\ id.u = u /\ id.d = d /\ id.ug = ugen[s][u]
    <2>1. d \in Directions /\ id \in Identities
      BY DEF StateTypes, SchedulerTypeOK, Identities
    <2>2. j \in Jobs /\ j \notin Submitted
      BY <1>1, JobFacts, SchedulerAssumption DEF Submitted, Jobs
    <2> QED
      BY <2>1, <2>2 DEF QueueShape
  <1>3. /\ Submitted' = Submitted \cup {j} /\ identity' \in Seq(Identities)
        /\ Len(identity') <= MaxJobs
        /\ identity'[j] = id /\ \A k \in Submitted : identity'[k] = identity[k]
    BY <1>1, <1>2, JobFacts DEF StateTypes, Submitted
  <1> HIDE DEF d, j, id
  <1>a. active' = active /\ sgen' = sgen /\ ugen' = ugen /\ next_generation' = next_generation
    BY <1>1
  <1>b. sgen[s] # 0 /\ ugen[s][u] # 0
    BY <1>1
  <1>4. /\ step' \in [Jobs -> {"none", "queued", "work", "gpu", "resume", "done", "gone"}]
        /\ step'[j] = "queued" /\ \A k \in Jobs \ {j} : step'[k] = step[k]
        /\ future' \in [Jobs -> {"none", "pending", "result", "stale", "unavailable"}]
        /\ future'[j] = "pending" /\ \A k \in Jobs \ {j} : future'[k] = future[k]
        /\ queue' \in [Directions -> SUBSET Jobs]
        /\ queue'[d] = queue[d] \cup {j} /\ \A e \in Directions \ {d} : queue'[e] = queue[e]
    BY <1>1, <1>2 DEF StateTypes, SchedulerTypeOK
  <1>5. StateTypes'
    <2>1. Range(identity') \subseteq Identities
      BY <1>3, RangeOfSeq
    <2> QED
      BY <1>1, <1>3, <1>4, <2>1 DEF StateTypes, SchedulerTypeOK
  <1>6. QueueShape'
    <2>1. \A k \in Jobs : k \notin Submitted' => step'[k] = "none" /\ future'[k] = "none"
      BY <1>3, <1>4 DEF QueueShape
    <2>2. \A e \in Directions : \A k \in queue'[e] :
            k \in Submitted' /\ identity'[k].d = e /\ step'[k] = "queued"
      BY <1>2, <1>3, <1>4, JobFacts DEF QueueShape
    <2>3. \A k \in Submitted' : step'[k] = "queued" => k \in queue'[identity'[k].d]
      BY <1>2, <1>3, <1>4, JobFacts DEF QueueShape
    <2> QED
      BY <2>1, <2>2, <2>3 DEF QueueShape
  <1>7. ActiveShape'
    <2>1. \A k \in Submitted : k # j /\ step'[k] = step[k]
      BY <1>2, <1>4, JobFacts
    <2>2. \A e \in Directions : active'[e] # 0 =>
            active'[e] \in Submitted' /\ identity'[active'[e]].d = e /\ step'[active'[e]] \in Busy
      BY <1>a, <1>3, <2>1 DEF ActiveShape
    <2>3. \A k \in Submitted' : step'[k] \in Busy => active'[identity'[k].d] = k
      BY <1>a, <1>3, <1>4, <2>1 DEF ActiveShape, Busy
    <2> QED
      BY <2>2, <2>3 DEF ActiveShape
  <1>8. FutureShape'
    BY <1>2, <1>3, <1>4, JobFacts DEF FutureShape
  <1>9. NativeShape'
    BY <1>1, <1>2, <1>4 DEF NativeShape, StateTypes
  <1>10. GenerationShape'
    <2>1. \A k \in Submitted' : identity'[k].ug # 0 /\ identity'[k].ug < next_generation
      BY <1>b, <1>2, <1>3 DEF GenerationShape
    <2>2. \A k \in Submitted' : step'[k] = "queued" => sgen[identity'[k].s] # 0
      <3>1. \A k \in Submitted : step'[k] = step[k]
        BY <1>2, <1>4, JobFacts
      <3> QED
        BY <1>b, <1>2, <1>3, <3>1 DEF GenerationShape
    <2> QED
      BY <1>a, <2>1, <2>2 DEF GenerationShape
  <1>11. ResultShape' /\ ResultsAreCurrent'
    <2>1. ResultShape'
      <3>1. \A k \in Submitted : future'[k] = future[k]
        BY <1>2, <1>4, JobFacts
      <3> QED
        BY <1>a, <1>3, <1>4, <3>1 DEF ResultShape
    <2>2. \A k \in Jobs : cancelled'[k] => future'[k] # "result"
      BY <1>1, <1>4 DEF ResultsAreCurrent
    <2>3. \A i, k \in Submitted' : i # k /\ identity'[i] = identity'[k]
            => ~(future'[i] = "result" /\ future'[k] = "result")
      <3>1. \A k \in Submitted' : future'[k] = "result" => k \in Submitted /\ future[k] = "result"
        BY <1>2, <1>3, <1>4, JobFacts
      <3> QED
        BY <1>3, <3>1 DEF ResultsAreCurrent, Submitted
    <2> QED
      BY <2>1, <2>2, <2>3 DEF ResultsAreCurrent, Submitted
  <1>12. AdmissionBound'
    <2>1. /\ Cardinality(queue[d]) \in Nat
          /\ Cardinality(queue'[d]) <= Cardinality(queue[d]) + 1
      <3>1. IsFiniteSet(queue[d]) /\ Cardinality(queue[d]) \in Nat
        BY <1>2, QueueFacts
      <3>2. Cardinality(queue[d] \cup {j}) =
              IF j \in queue[d] THEN Cardinality(queue[d]) ELSE Cardinality(queue[d]) + 1
        BY <3>1, FS_AddElement
      <3> QED
        BY <1>4, <3>1, <3>2
    <2>2. Cardinality(queue'[d]) \in Nat
      <3>1. IsFiniteSet(queue[d])
        BY <1>2, QueueFacts
      <3>2. IsFiniteSet(queue[d] \cup {j})
        BY <3>1, FS_AddElement
      <3> QED
        BY <1>4, <3>2, FS_CardinalityType
    <2>3. Cardinality(queue'[d]) + (IF active'[d] = 0 THEN 0 ELSE 1) <= QueuedPerDirection + 1
      BY <1>1, <2>1, <2>2, SchedulerAssumption DEF AdmissionCapacity
    <2> QED
      BY <1>1, <1>4, <2>3 DEF AdmissionBound
  <1>13. CleanupShape'
    <2>1. cleanup = "none"
      BY <1>1 DEF CleanupShape
    <2> QED
      BY <1>1, <2>1 DEF CleanupShape, Left
  <1> QED
    BY <1>5, <1>6, <1>7, <1>8, <1>9, <1>10, <1>11, <1>12, <1>13

----------------------------------------------------------------------------
(* Cancellation.                                                           *)

\* What _cancel_matching does to jobs that were submitted: it resolves the queued ones and
\* marks the active ones, and touches no other.
LEMMA CancelFacts ==
    ASSUME SchedulerInv, NEW M, M \subseteq Submitted, _cancel_matching(M),
           UNCHANGED <<identity, natives, gpu, active>>
    PROVE  /\ queue' = [d \in Directions |-> queue[d] \ M]
           /\ queue' \in [Directions -> SUBSET Jobs]
           /\ cancelled' \in [Jobs -> BOOLEAN] /\ signal' \in BOOLEAN
           /\ future' \in [Jobs -> {"none", "pending", "result", "stale", "unavailable"}]
           /\ step' \in [Jobs -> {"none", "queued", "work", "gpu", "resume", "done", "gone"}]
           /\ \A j \in Jobs : step'[j] = "queued" => step[j] = "queued" /\ j \notin M
           /\ \A j \in Jobs : future'[j] = "result" => future[j] = "result"
           /\ Running' = Running
           /\ QueueShape' /\ ActiveShape' /\ FutureShape' /\ NativeShape'
           /\ AdmissionBound' /\ ResultsAreCurrent'
  <1> USE DEF SchedulerInv
  <1>1. \A j \in Jobs : j \in QueuedJobs <=> step[j] = "queued"
    <2>1. \A j \in Jobs : step[j] = "queued" => j \in Submitted
      BY StepFacts
    <2> QED
      BY <2>1, JobFacts DEF QueuedJobs, QueueShape
  <1>2. \A j \in Jobs : j \in ActiveJobs => j \in Submitted /\ step[j] \in Busy
    BY DEF ActiveJobs, ActiveShape
  <1>3. /\ queue' = [d \in Directions |-> queue[d] \ M]
        /\ cancelled' = [j \in Jobs |-> cancelled[j] \/ j \in M \cap (ActiveJobs \cup QueuedJobs)]
        /\ future' = [j \in Jobs |-> IF j \in M \cap QueuedJobs /\ future[j] = "pending"
                                     THEN "stale" ELSE future[j]]
        /\ step' = [j \in Jobs |-> IF j \in M \cap QueuedJobs THEN "gone" ELSE step[j]]
        /\ signal' = (dispatcher # "none" \/ signal)
    BY DEF _cancel_matching, PurgedFutures, SetSignal
  <1>4. /\ \A j \in Jobs : cancelled'[j] => cancelled[j] \/ step[j] \in Busy \cup {"queued"}
        /\ cancelled' \in [Jobs -> BOOLEAN]
    <2>1. \A j \in Jobs : cancelled'[j] = (cancelled[j] \/ j \in M \cap (ActiveJobs \cup QueuedJobs))
      BY <1>3
    <2>2. \A j \in Jobs : (cancelled[j] \/ j \in M \cap (ActiveJobs \cup QueuedJobs)) \in BOOLEAN
      BY DEF StateTypes, SchedulerTypeOK
    <2>3. cancelled' \in [Jobs -> BOOLEAN]
      BY <1>3, <2>1, <2>2
    <2> QED
      BY <1>1, <1>2, <2>1, <2>3
  <1>5. /\ future' \in [Jobs -> {"none", "pending", "result", "stale", "unavailable"}]
        /\ step' \in [Jobs -> {"none", "queued", "work", "gpu", "resume", "done", "gone"}]
        /\ queue' \in [Directions -> SUBSET Jobs]
    BY <1>3 DEF StateTypes, SchedulerTypeOK
  <1>6. /\ \A j \in Jobs : j \in M /\ step[j] = "queued" => step'[j] = "gone"
        /\ \A j \in Jobs : ~(j \in M /\ step[j] = "queued")
                             => step'[j] = step[j] /\ future'[j] = future[j]
        /\ \A j \in Jobs : j \in M /\ step[j] = "queued"
                             => future'[j] = IF future[j] = "pending" THEN "stale" ELSE future[j]
        /\ \A d \in Directions : queue'[d] = queue[d] \ M
    BY <1>1, <1>3
  <1>7. Submitted' = Submitted /\ signal' \in BOOLEAN
    BY <1>3 DEF Submitted, StateTypes, SchedulerTypeOK
  <1>8. \A j \in Jobs : step'[j] = "queued" => step[j] = "queued" /\ j \notin M
    BY <1>6
  <1>9. \A j \in Jobs : future'[j] = "result" => future[j] = "result"
    BY <1>6
  <1>10. Running' = Running
    BY <1>6 DEF Running
  <1>11. QueueShape'
    <2>1. \A j \in Jobs : j \notin Submitted => step'[j] = "none" /\ future'[j] = "none"
      BY <1>6 DEF QueueShape
    <2>2. \A d \in Directions : \A j \in queue'[d] :
            j \in Submitted /\ identity[j].d = d /\ step'[j] = "queued"
      BY <1>6, JobFacts DEF QueueShape
    <2>3. \A j \in Submitted : step'[j] = "queued" => j \in queue'[identity[j].d]
      BY <1>6, <1>8, JobFacts DEF QueueShape
    <2> QED
      BY <1>7, <2>1, <2>2, <2>3 DEF QueueShape
  <1>12. ActiveShape'
    <2>1. \A j \in Jobs : step[j] \in Busy <=> step'[j] \in Busy
      BY <1>6 DEF Busy
    <2> QED
      BY <1>7, <2>1, JobFacts DEF ActiveShape
  <1>13. FutureShape'
    BY <1>6, <1>7, JobFacts DEF FutureShape, Busy
  <1>14. NativeShape'
    <2>1. \A i \in 1 .. Len(gpu) : gpu[i] \in Jobs
      BY RangeOfSeq DEF StateTypes
    <2> QED
      BY <1>6, <2>1 DEF NativeShape
  <1>15. AdmissionBound'
    <2> SUFFICES ASSUME NEW d \in Directions
                 PROVE  /\ Cardinality(queue'[d]) \in Nat
                        /\ Cardinality(queue'[d]) <= Cardinality(queue[d])
      BY QueueFacts, SchedulerAssumption DEF AdmissionBound
    <2>1. IsFiniteSet(queue[d]) /\ queue'[d] \in SUBSET queue[d]
      BY <1>6, QueueFacts
    <2> QED
      BY <2>1, FS_Subset, FS_CardinalityType
  <1>16. ResultsAreCurrent'
    <2>1. \A j \in Jobs : cancelled'[j] => future'[j] # "result"
      <3>1. \A j \in Jobs : step[j] \in Busy \cup {"queued"} => future[j] = "pending"
        BY StepFacts DEF FutureShape, Busy
      <3> QED
        BY <1>4, <1>9, <3>1 DEF ResultsAreCurrent
    <2> QED
      BY <1>9, <2>1, JobFacts DEF ResultsAreCurrent, Submitted
  <1> QED
    BY <1>3, <1>4, <1>5, <1>7, <1>8, <1>9, <1>10, <1>11, <1>12, <1>13, <1>14, <1>15, <1>16

\* An utterance is cancelled with its jobs.
LEMMA CancelUtteranceKeeps ==
    ASSUME NEW s \in Sessions, NEW u \in Utterances
    PROVE  SchedulerInv /\ cancel_utterance(s, u) => SchedulerInv'
  <1> SUFFICES ASSUME SchedulerInv, cancel_utterance(s, u) PROVE SchedulerInv'
    OBVIOUS
  <1> USE DEF SchedulerInv
  <1> DEFINE M == {j \in JobsOf(s) : identity[j].u = u}
  <1>1. /\ ugen' = [ugen EXCEPT ![s][u] = 0] /\ _cancel_matching(M)
        /\ UNCHANGED <<sdir, sgen, next_generation, identity, natives, gpu, active,
                       round_robin, dispatcher, closed, cleanup, gathered, caller>>
    BY DEF cancel_utterance, shutdownVars
  <1>2. M \subseteq Submitted
    BY DEF JobsOf, Submitted
  <1> HIDE DEF M
  <1>3. /\ ugen' \in [Sessions -> [Utterances -> Generations]]
        /\ \A t \in Sessions, v \in Utterances : ugen'[t][v] = ugen[t][v] \/ ugen'[t][v] = 0
    BY <1>1, SchedulerAssumption DEF StateTypes, SchedulerTypeOK, Generations
  <1>4. Submitted' = Submitted
    BY <1>1 DEF Submitted
  <1>5. StateTypes'
    BY <1>1, <1>2, <1>3, CancelFacts DEF StateTypes, SchedulerTypeOK
  <1>6. GenerationShape' /\ ResultShape'
    <2>1. next_generation \in Nat \ {0}
      BY SchedulerAssumption DEF StateTypes, SchedulerTypeOK
    <2>2. /\ \A j \in Jobs : step'[j] = "queued" => step[j] = "queued"
          /\ \A j \in Jobs : future'[j] = "result" => future[j] = "result"
      BY <1>1, <1>2, CancelFacts
    <2>3. sgen' = sgen /\ next_generation' = next_generation /\ identity' = identity
      BY <1>1
    <2>4. GenerationShape'
      BY <1>3, <1>4, <2>1, <2>2, <2>3, JobFacts DEF GenerationShape
    <2>5. ResultShape'
      BY <1>3, <1>4, <2>2, <2>3, JobFacts DEF GenerationShape, ResultShape
    <2> QED
      BY <2>4, <2>5
  <1>7. CleanupShape'
    BY <1>1, <1>2, CancelFacts DEF CleanupShape, Left
  <1> QED
    BY <1>1, <1>2, <1>5, <1>6, <1>7, CancelFacts

\* A session is closed with its jobs.
LEMMA CloseSessionKeeps ==
    ASSUME NEW s \in Sessions
    PROVE  SchedulerInv /\ close_session(s) => SchedulerInv'
  <1> SUFFICES ASSUME SchedulerInv, close_session(s) PROVE SchedulerInv'
    OBVIOUS
  <1> USE DEF SchedulerInv
  <1>1. /\ sgen' = [sgen EXCEPT ![s] = 0] /\ sdir' = [sdir EXCEPT ![s] = 0]
        /\ ugen' = [ugen EXCEPT ![s] = [u \in Utterances |-> 0]]
        /\ _cancel_matching(JobsOf(s))
        /\ UNCHANGED <<next_generation, identity, natives, gpu, active, round_robin,
                       dispatcher, closed, cleanup, gathered, caller>>
    BY DEF close_session, shutdownVars
  <1>2. JobsOf(s) \subseteq Submitted /\ \A j \in Submitted \ JobsOf(s) : identity[j].s # s
    BY DEF JobsOf, Submitted
  <1>3. /\ ugen' \in [Sessions -> [Utterances -> Generations]]
        /\ sgen' \in [Sessions -> Generations] /\ sdir' \in [Sessions -> Directions]
        /\ \A t \in Sessions, v \in Utterances : ugen'[t][v] = ugen[t][v] \/ ugen'[t][v] = 0
        /\ sgen'[s] = 0 /\ \A t \in Sessions \ {s} : sgen'[t] = sgen[t]
    BY <1>1, SchedulerAssumption
      DEF StateTypes, SchedulerTypeOK, Generations, Directions, NDirections
  <1>4. Submitted' = Submitted
    BY <1>1 DEF Submitted
  <1>5. StateTypes'
    BY <1>1, <1>2, <1>3, CancelFacts DEF StateTypes, SchedulerTypeOK
  <1>6. GenerationShape'
    <2>1. \A j \in Submitted : step'[j] = "queued" => sgen'[identity[j].s] # 0
      BY <1>1, <1>2, <1>3, CancelFacts, JobFacts DEF GenerationShape
    <2>2. /\ \A t \in Sessions : sgen'[t] < next_generation
          /\ \A t \in Sessions, v \in Utterances : ugen'[t][v] < next_generation
      <3>1. next_generation \in Nat \ {0}
        BY SchedulerAssumption DEF StateTypes, SchedulerTypeOK
      <3>2. \A t \in Sessions : sgen'[t] < next_generation
        BY <1>3, <3>1 DEF GenerationShape
      <3>3. \A t \in Sessions, v \in Utterances : ugen'[t][v] < next_generation
        BY <1>3, <3>1 DEF GenerationShape
      <3> QED
        BY <3>2, <3>3
    <2> QED
      BY <1>1, <1>4, <2>1, <2>2 DEF GenerationShape
  <1>7. ResultShape'
    BY <1>1, <1>2, <1>3, <1>4, CancelFacts, JobFacts DEF ResultShape, GenerationShape
  <1>8. CleanupShape'
    BY <1>1, <1>2, <1>3, CancelFacts DEF CleanupShape, Left
  <1> QED
    BY <1>1, <1>2, <1>5, <1>6, <1>7, <1>8, CancelFacts

\* The cleanup closes every session; a queued job has one, so the queues are empty.
LEMMA ShutdownImplKeeps == SchedulerInv /\ _shutdown_impl => SchedulerInv'
  <1> SUFFICES ASSUME SchedulerInv, _shutdown_impl PROVE SchedulerInv'
    OBVIOUS
  <1> USE DEF SchedulerInv
  <1> DEFINE M == UNION {JobsOf(s) : s \in {t \in Sessions : sgen[t] # 0}}
  <1>1. /\ cleanup = "created" /\ cleanup' = "gather" /\ gathered' = Running
        /\ sgen' = [s \in Sessions |-> 0] /\ sdir' = [s \in Sessions |-> 0]
        /\ ugen' = [s \in Sessions |-> [u \in Utterances |-> 0]]
        /\ _cancel_matching(M)
        /\ UNCHANGED <<next_generation, identity, natives, gpu, active, round_robin,
                       dispatcher, closed, caller>>
    BY DEF _shutdown_impl
  <1>2. /\ M \subseteq Submitted
        /\ \A j \in Submitted : identity[j].s \in Sessions /\ sgen[identity[j].s] # 0 => j \in M
    BY DEF JobsOf, Submitted
  <1> HIDE DEF M
  <1>3. /\ ugen' \in [Sessions -> [Utterances -> Generations]]
        /\ sgen' \in [Sessions -> Generations] /\ sdir' \in [Sessions -> Directions]
        /\ \A t \in Sessions, v \in Utterances : ugen'[t][v] = 0
        /\ \A t \in Sessions : sgen'[t] = 0
    BY <1>1, SchedulerAssumption DEF Generations, Directions, NDirections
  <1>4. Submitted' = Submitted
    BY <1>1 DEF Submitted
  <1>5. StateTypes'
    BY <1>1, <1>2, <1>3, CancelFacts DEF StateTypes, SchedulerTypeOK, Running
  <1>6. \A j \in Jobs : step'[j] # "queued"
    BY <1>1, <1>2, CancelFacts, JobFacts, StepFacts DEF GenerationShape
  <1>7. \A d \in Directions : queue'[d] = {}
    BY <1>1, <1>2, <1>4, <1>6, CancelFacts, JobFacts DEF QueueShape
  <1>8. GenerationShape'
    BY <1>1, <1>3, <1>4, <1>6, JobFacts DEF GenerationShape, StateTypes, SchedulerTypeOK
  <1>9. ResultShape'
    BY <1>1, <1>3, <1>4, JobFacts DEF ResultShape, GenerationShape
  <1>10. CleanupShape'
    BY <1>1, <1>2, <1>3, <1>7, CancelFacts DEF CleanupShape, Left
  <1> QED
    BY <1>1, <1>2, <1>5, <1>8, <1>9, <1>10, CancelFacts

----------------------------------------------------------------------------
(* Dispatch.                                                               *)

\* A set of numbers that is not empty has a least one.
LEMMA LeastOf ==
    ASSUME NEW S, S \subseteq Nat, S # {}
    PROVE  \E j \in S : \A k \in S : j <= k
  <1> DEFINE R == OpToRel(<, Nat)
  <1>1. \E j \in S : \A k \in S : ~(<<k, j>> \in R)
    BY NatLessThanWellFounded, WFMin
  <1>2. \A j, k \in Nat : k < j => <<k, j>> \in R
    BY DEF OpToRel
  <1> HIDE DEF R
  <1>3. PICK j \in S : \A k \in S : ~(<<k, j>> \in R)
    BY <1>1
  <1>4. \A k \in S : ~(k < j) /\ k \in Nat /\ j \in Nat
    BY <1>2, <1>3
  <1> QED
    BY <1>4

\* What a turn of the dispatcher takes from the queues: a job that is taken is started or
\* dropped, the one started is of the queue whose slot it takes.
LEMMA DispatchFacts ==
    ASSUME SchedulerInv
    PROVE  /\ \A d \in Directions : Starts(d) =>
                active[d] = 0 /\ FirstCurrent(d) \in queue[d] /\ FirstCurrent(d) \in Popped(d)
           /\ \A d \in Directions : Popped(d) \subseteq queue[d]
           /\ \A j \in Started :
                j \in Submitted /\ Starts(identity[j].d) /\ j = FirstCurrent(identity[j].d)
           /\ \A j \in Dropped : j \in Submitted /\ j \in Popped(identity[j].d) /\ j \notin Started
           /\ \A d \in Directions : \A j \in Popped(d) : j \in Started \/ j \in Dropped
           /\ \A j \in Started \cup Dropped : step[j] = "queued"
  <1> USE DEF SchedulerInv
  <1>1. ASSUME NEW d \in Directions, Starts(d)
        PROVE  active[d] = 0 /\ FirstCurrent(d) \in queue[d] /\ FirstCurrent(d) \in Popped(d)
    <2>1. active[d] = 0 /\ Current(d) # {} /\ Current(d) \subseteq Nat
      BY <1>1 DEF Starts, Current, StateTypes, SchedulerTypeOK, Jobs
    <2>2. \E j \in Current(d) : \A k \in Current(d) : j <= k
      BY <2>1, LeastOf
    <2>3. FirstCurrent(d) \in Current(d) /\ \A k \in Current(d) : FirstCurrent(d) <= k
      BY <2>2 DEF FirstCurrent
    <2> QED
      BY <2>1, <2>3 DEF Current, Popped
  <1>2. \A d \in Directions : Popped(d) \subseteq queue[d]
    BY DEF Popped
  <1>3. \A d \in Directions : \A j \in queue[d] :
          j \in Submitted /\ identity[j].d = d /\ step[j] = "queued"
    BY DEF QueueShape
  <1>4. \A j \in Started :
          j \in Submitted /\ Starts(identity[j].d) /\ j = FirstCurrent(identity[j].d)
          /\ step[j] = "queued"
    BY <1>1, <1>3 DEF Started
  <1>5. \A j \in Dropped : j \in Submitted /\ j \in Popped(identity[j].d) /\ j \notin Started
          /\ step[j] = "queued"
    <2> SUFFICES ASSUME NEW j \in Dropped
                 PROVE  j \in Submitted /\ j \in Popped(identity[j].d) /\ j \notin Started
                        /\ step[j] = "queued"
      OBVIOUS
    <2>1. PICK d \in Directions : j \in Popped(d)
      BY DEF Dropped
    <2>2. j \notin Started
      BY DEF Dropped
    <2> QED
      BY <1>2, <1>3, <2>1, <2>2
  <1>6. \A d \in Directions : \A j \in Popped(d) : j \in Started \/ j \in Dropped
    <2> SUFFICES ASSUME NEW d \in Directions, NEW j \in Popped(d), j \notin Started
                 PROVE  j \in (UNION {Popped(e) : e \in Directions}) \ Started
      BY DEF Dropped
    <2> QED
      OBVIOUS
  <1> QED
    BY <1>1, <1>2, <1>4, <1>5, <1>6

\* The index of the loop stays inside the tuple of directions.
LEMMA IndexFacts ==
    ASSUME round_robin \in Directions, NEW served \in SUBSET Directions
    PROVE  NextIndex(served) \in Directions
  <1>1. CASE served = {}
    BY <1>1 DEF NextIndex
  <1>2. CASE served # {}
    <2> DEFINE Offset(d) == (d - round_robin) % NDirections
    <2>1. \E d \in served : \A e \in served : Offset(e) <= Offset(d)
      <3>1. Directions = {0, 1} /\ NDirections = 2
        BY DEF Directions, NDirections
      <3>2. /\ round_robin = 0 => Offset(0) = 0 /\ Offset(1) = 1
            /\ round_robin = 1 => Offset(0) = 1 /\ Offset(1) = 0
        BY <3>1
      <3> HIDE DEF Offset
      <3>3. PICK a \in Directions : Offset(a) = 1 /\ \A e \in Directions : Offset(e) \in {0, 1}
        BY <3>1, <3>2
      <3>4. CASE a \in served
        BY <3>3, <3>4
      <3>5. CASE a \notin served
        <4>1. \E d \in served : served = {d} /\ Offset(d) \in {0, 1}
          BY <1>2, <3>1, <3>3, <3>5
        <4> QED
          BY <4>1
      <3> QED
        BY <3>4, <3>5
    <2>2. LastServed(served) \in served
      BY <2>1 DEF LastServed
    <2> QED
      <3>1. NextIndex(served) = (LastServed(served) + 1) % NDirections
        BY <1>2 DEF NextIndex
      <3>2. LastServed(served) \in Directions
        BY <2>2
      <3> QED
        BY <3>1, <3>2 DEF Directions, NDirections
  <1> QED
    BY <1>1, <1>2

\* A turn of the dispatcher.
LEMMA DispatchLoopKeeps == SchedulerInv /\ _dispatch_loop => SchedulerInv'
  <1> SUFFICES ASSUME SchedulerInv, _dispatch_loop PROVE SchedulerInv'
    OBVIOUS
  <1> USE DEF SchedulerInv
  <1>1. /\ UNCHANGED <<sdir, sgen, ugen, next_generation, identity, cancelled, natives, gpu,
                       closed, cleanup, gathered, caller>>
        /\ Submitted' = Submitted
    BY DEF _dispatch_loop, sessionVars, shutdownVars, Submitted
  <1>2. /\ active' = [d \in Directions |-> IF Starts(d) THEN FirstCurrent(d) ELSE active[d]]
        /\ queue' = [d \in Directions |-> queue[d] \ Popped(d)]
        /\ future' = [j \in Jobs |-> IF j \in Dropped THEN "stale" ELSE future[j]]
        /\ step' = [j \in Jobs |-> CASE j \in Dropped -> "gone"
                                    [] j \in Started -> "work"
                                    [] OTHER -> step[j]]
        /\ round_robin' = NextIndex({d \in Directions : Starts(d)})
    BY DEF _dispatch_loop, _dispatch_available
  <1>3. dispatcher' \in {"none", "wait", "returned"} /\ signal' \in BOOLEAN
    BY DEF _dispatch_loop, _has_dispatchable, StateTypes, SchedulerTypeOK
  <1>4. /\ \A d \in Directions : queue'[d] = queue[d] \ Popped(d)
        /\ \A d \in Directions : Starts(d) => active'[d] = FirstCurrent(d)
        /\ \A d \in Directions : ~Starts(d) => active'[d] = active[d]
        /\ \A j \in Jobs : j \in Dropped => step'[j] = "gone" /\ future'[j] = "stale"
        /\ \A j \in Jobs : j \in Started => step'[j] = "work" /\ future'[j] = future[j]
        /\ \A j \in Jobs : j \notin Dropped \cup Started => step'[j] = step[j] /\ future'[j] = future[j]
    BY <1>2, DispatchFacts
  <1>5. StateTypes'
    <2>1. /\ queue' \in [Directions -> SUBSET Jobs]
          /\ future' \in [Jobs -> {"none", "pending", "result", "stale", "unavailable"}]
      BY <1>2 DEF StateTypes, SchedulerTypeOK
    <2>2. step' \in [Jobs -> {"none", "queued", "work", "gpu", "resume", "done", "gone"}]
      BY <1>2 DEF StateTypes, SchedulerTypeOK
    <2>3. active' \in [Directions -> 0 .. MaxJobs]
      <3>1. \A d \in Directions : Starts(d) => FirstCurrent(d) \in Jobs
        BY DispatchFacts DEF StateTypes, SchedulerTypeOK
      <3> QED
        BY <1>2, <3>1, SchedulerAssumption DEF StateTypes, SchedulerTypeOK, Jobs
    <2>4. round_robin' \in Directions
      BY <1>2, IndexFacts DEF StateTypes, SchedulerTypeOK
    <2> QED
      BY <1>1, <1>3, <2>1, <2>2, <2>3, <2>4 DEF StateTypes, SchedulerTypeOK
  <1>6. QueueShape'
    <2>1. \A j \in Jobs : j \notin Submitted => step'[j] = "none" /\ future'[j] = "none"
      BY <1>4, DispatchFacts DEF QueueShape
    <2>2. ASSUME NEW d \in Directions, NEW j \in queue'[d]
          PROVE  j \in Submitted /\ identity[j].d = d /\ step'[j] = "queued"
      <3>1. j \in queue[d] /\ j \notin Popped(d)
        BY <1>4
      <3>2. j \in Submitted /\ identity[j].d = d /\ step[j] = "queued"
        BY <3>1 DEF QueueShape
      <3>3. j \notin Dropped \cup Started
        BY <3>1, <3>2, DispatchFacts
      <3> QED
        BY <1>4, <3>2, <3>3, JobFacts
    <2>3. ASSUME NEW j \in Submitted, step'[j] = "queued"
          PROVE  j \in queue'[identity[j].d]
      <3>1. j \in Jobs /\ identity[j].d \in Directions
        BY JobFacts
      <3>2. j \notin Dropped \cup Started /\ step[j] = "queued"
        BY <1>4, <2>3, <3>1
      <3>3. j \in queue[identity[j].d]
        BY <3>2 DEF QueueShape
      <3> QED
        BY <1>4, <3>1, <3>2, <3>3, DispatchFacts
    <2> QED
      BY <1>1, <2>1, <2>2, <2>3 DEF QueueShape
  <1>7. ActiveShape'
    <2>1. ASSUME NEW d \in Directions, active'[d] # 0
          PROVE  active'[d] \in Submitted /\ identity[active'[d]].d = d /\ step'[active'[d]] \in Busy
      <3>1. CASE Starts(d)
        <4>1. FirstCurrent(d) \in Started /\ FirstCurrent(d) \in queue[d]
          BY <3>1, DispatchFacts DEF Started
        <4> QED
          BY <1>4, <3>1, <4>1, JobFacts DEF QueueShape, Busy
      <3>2. CASE ~Starts(d)
        <4>1. /\ active'[d] = active[d] /\ active[d] \in Submitted
              /\ identity[active[d]].d = d /\ step[active[d]] \in Busy
          BY <1>4, <2>1, <3>2 DEF ActiveShape
        <4>2. active[d] \notin Dropped \cup Started
          BY <4>1, DispatchFacts DEF Busy
        <4> QED
          BY <1>4, <4>1, <4>2, JobFacts
      <3> QED
        BY <3>1, <3>2
    <2>2. ASSUME NEW j \in Submitted, step'[j] \in Busy
          PROVE  active'[identity[j].d] = j
      <3>1. j \in Jobs /\ identity[j].d \in Directions
        BY JobFacts
      <3>2. CASE j \in Started
        BY <1>4, <3>1, <3>2, DispatchFacts
      <3>3. CASE j \notin Started
        <4>1. step[j] \in Busy
          BY <1>4, <2>2, <3>1, <3>3 DEF Busy
        <4>2. active[identity[j].d] = j /\ j # 0
          BY <4>1 DEF ActiveShape, Submitted
        <4>3. ~Starts(identity[j].d)
          BY <4>2 DEF Starts
        <4> QED
          BY <1>4, <3>1, <4>2, <4>3
      <3> QED
        BY <3>2, <3>3
    <2> QED
      BY <1>1, <2>1, <2>2 DEF ActiveShape
  <1>8. FutureShape'
    <2>1. \A j \in Started \cup Dropped : step[j] = "queued"
      BY DispatchFacts
    <2> QED
      BY <1>1, <1>4, <2>1, JobFacts DEF FutureShape, Busy
  <1>9. NativeShape'
    <2>1. \A i \in 1 .. Len(gpu) : gpu[i] \in Jobs
      BY RangeOfSeq DEF StateTypes
    <2>2. \A i \in 1 .. Len(gpu) : gpu[i] \notin Dropped \cup Started
      BY DispatchFacts DEF NativeShape
    <2>3. gpu' = gpu
      BY <1>1
    <2> QED
      BY <1>4, <2>1, <2>2, <2>3 DEF NativeShape
  <1>10. GenerationShape' /\ ResultShape'
    <2>1. /\ sgen' = sgen /\ ugen' = ugen /\ next_generation' = next_generation
          /\ identity' = identity
      BY <1>1
    <2>2. /\ \A j \in Jobs : step'[j] = "queued" => step[j] = "queued"
          /\ \A j \in Jobs : future'[j] = "result" => future[j] = "result"
      BY <1>4
    <2> QED
      BY <1>1, <2>1, <2>2, JobFacts DEF GenerationShape, ResultShape
  <1>11. ResultsAreCurrent'
    <2>1. \A j \in Jobs : future'[j] = "result" => future[j] = "result"
      BY <1>4
    <2> QED
      BY <1>1, <2>1, JobFacts DEF ResultsAreCurrent, Submitted
  <1>12. AdmissionBound'
    <2> SUFFICES ASSUME NEW d \in Directions
                 PROVE  Cardinality(queue'[d]) + (IF active'[d] = 0 THEN 0 ELSE 1)
                          <= QueuedPerDirection + 1
      BY DEF AdmissionBound
    <2>1. IsFiniteSet(queue[d]) /\ Cardinality(queue[d]) \in Nat /\ queue'[d] \subseteq queue[d]
      BY <1>4, QueueFacts
    <2>2. /\ Cardinality(queue'[d]) \in Nat
          /\ Cardinality(queue'[d]) <= Cardinality(queue[d])
      BY <2>1, FS_Subset, FS_CardinalityType
    <2>3. Cardinality(queue[d]) + (IF active[d] = 0 THEN 0 ELSE 1) <= QueuedPerDirection + 1
      BY DEF AdmissionBound
    <2>4. CASE Starts(d)
      <3> DEFINE f == FirstCurrent(d)
      <3>1. f \in queue[d] /\ f \notin queue'[d]
        BY <1>4, <2>4, DispatchFacts
      <3> HIDE DEF f
      <3>2. Cardinality(queue[d] \ {f}) = Cardinality(queue[d]) - 1 /\ IsFiniteSet(queue[d] \ {f})
        BY <2>1, <3>1, FS_RemoveElement
      <3>3. Cardinality(queue'[d]) <= Cardinality(queue[d]) - 1
        <4>1. queue'[d] \in SUBSET (queue[d] \ {f})
          BY <2>1, <3>1
        <4> QED
          BY <3>2, <4>1, FS_Subset
      <3>4. active[d] = 0
        BY <2>4, DispatchFacts
      <3> QED
        BY <2>1, <2>2, <2>3, <3>3, <3>4, SchedulerAssumption
    <2>5. CASE ~Starts(d)
      BY <1>4, <2>1, <2>2, <2>3, <2>5, SchedulerAssumption
    <2> QED
      BY <2>4, <2>5
  <1>13. CleanupShape'
    <2>1. ASSUME \A d \in Directions : queue[d] = {}
          PROVE  Running' = Running /\ \A d \in Directions : queue'[d] = {}
      <3>1. Started = {} /\ Dropped = {}
        BY <2>1, DispatchFacts, JobFacts
      <3>2. \A j \in Jobs : step'[j] = step[j]
        BY <1>4, <3>1
      <3> QED
        BY <1>4, <2>1, <3>2 DEF Running
    <2>2. cleanup' = cleanup /\ closed' = closed /\ sgen' = sgen /\ gathered' = gathered
            /\ caller' = caller
      BY <1>1
    <2> QED
      BY <2>1, <2>2 DEF CleanupShape, Left
  <1> QED
    BY <1>5, <1>6, <1>7, <1>8, <1>9, <1>10, <1>11, <1>12, <1>13

----------------------------------------------------------------------------
(* The end of a job.                                                       *)

\* A job ends with an error, or with a result when it was neither cancelled nor stale.
LEMMA EndsKeeps ==
    ASSUME SchedulerInv, NEW j \in Jobs, step[j] \in {"work", "resume"},
           NEW outcome \in {"result", "stale", "unavailable"}, Ends(j, outcome),
           outcome = "result" => ~Stale(j)
    PROVE  SchedulerInv'
  <1> USE DEF SchedulerInv
  <1> DEFINE i == identity[j]
  <1>1. /\ UNCHANGED <<sdir, sgen, next_generation, identity, cancelled, gpu, queue, round_robin,
                       dispatcher, closed, cleanup, gathered, caller>>
        /\ Submitted' = Submitted
    BY DEF Ends, shutdownVars, Submitted
  <1>2. /\ natives' = [natives EXCEPT ![j] = 0] /\ step' = [step EXCEPT ![j] = "done"]
        /\ future' = [future EXCEPT ![j] = IF future[j] = "pending" THEN outcome ELSE future[j]]
        /\ active' = [d \in Directions |-> IF active[d] = j THEN 0 ELSE active[d]]
        /\ signal' = (dispatcher # "none" \/ signal)
        /\ ugen' = IF sgen[i.s] # 0 /\ sgen[i.s] = i.sg /\ ugen[i.s][i.u] = i.ug
                   THEN [ugen EXCEPT ![i.s][i.u] = 0] ELSE ugen
    BY DEF Ends, FreesSlot, SetSignal, _terminalize
  <1>3. /\ j \in Submitted /\ future[j] = "pending" /\ active[i.d] = j /\ j # 0
        /\ i.s \in Sessions /\ i.u \in Utterances /\ i.d \in Directions
    <2>1. j \in Submitted
      BY StepFacts
    <2> QED
      BY <2>1, JobFacts DEF ActiveShape, FutureShape, Busy, Submitted
  <1>4. /\ step' \in [Jobs -> {"none", "queued", "work", "gpu", "resume", "done", "gone"}]
        /\ future' \in [Jobs -> {"none", "pending", "result", "stale", "unavailable"}]
        /\ step'[j] = "done" /\ \A k \in Jobs \ {j} : step'[k] = step[k]
        /\ future'[j] = outcome /\ \A k \in Jobs \ {j} : future'[k] = future[k]
        /\ \A d \in Directions : active'[d] = IF active[d] = j THEN 0 ELSE active[d]
        /\ active' \in [Directions -> 0 .. MaxJobs] /\ natives' \in [Jobs -> 0 .. MaxNative]
    BY <1>2, <1>3, SchedulerAssumption DEF StateTypes, SchedulerTypeOK
  <1>5. /\ ugen' \in [Sessions -> [Utterances -> Generations]]
        /\ \A t \in Sessions, v \in Utterances : ugen'[t][v] = ugen[t][v] \/ ugen'[t][v] = 0
        /\ sgen[i.s] # 0 /\ sgen[i.s] = i.sg /\ ugen[i.s][i.u] = i.ug => ugen'[i.s][i.u] = 0
    <2> DEFINE same == sgen[i.s] # 0 /\ sgen[i.s] = i.sg /\ ugen[i.s][i.u] = i.ug
    <2>1. ugen \in [Sessions -> [Utterances -> Generations]] /\ 0 \in Generations
      BY SchedulerAssumption DEF StateTypes, SchedulerTypeOK, Generations
    <2>2. /\ same => ugen' = [ugen EXCEPT ![i.s][i.u] = 0]
          /\ ~same => ugen' = ugen
      BY <1>2
    <2> HIDE DEF same, i
    <2>3. CASE same
      <3>1. /\ ugen' \in [Sessions -> [Utterances -> Generations]] /\ ugen'[i.s][i.u] = 0
            /\ \A t \in Sessions, v \in Utterances : ugen'[t][v] = ugen[t][v] \/ ugen'[t][v] = 0
        BY <1>3, <2>1, <2>2, <2>3
      <3> QED
        BY <3>1
    <2>4. CASE ~same
      BY <2>1, <2>2, <2>4 DEF same
    <2> QED
      BY <2>3, <2>4
  <1> HIDE DEF i
  <1>6. outcome = "result" =>
          ~cancelled[j] /\ ugen[i.s][i.u] = i.ug /\ ugen'[i.s][i.u] = 0
    BY <1>5 DEF Stale, _is_current, i
  <1>7. StateTypes'
    <2>1. signal' \in BOOLEAN
      BY <1>2 DEF StateTypes, SchedulerTypeOK
    <2> QED
      BY <1>1, <1>4, <1>5, <2>1 DEF StateTypes, SchedulerTypeOK
  <1>8. QueueShape'
    <2>1. identity' = identity /\ queue' = queue
      BY <1>1
    <2>2. \A k \in Jobs : k \notin Submitted => step'[k] = "none" /\ future'[k] = "none"
      BY <1>3, <1>4 DEF QueueShape
    <2>3. \A d \in Directions : \A k \in queue[d] :
            k \in Submitted /\ identity[k].d = d /\ step'[k] = "queued"
      BY <1>4, JobFacts DEF QueueShape
    <2>4. \A k \in Submitted : step'[k] = "queued" => k \in queue[identity[k].d]
      BY <1>4, JobFacts DEF QueueShape
    <2> QED
      BY <1>1, <2>1, <2>2, <2>3, <2>4 DEF QueueShape
  <1>9. ActiveShape'
    <2>1. identity' = identity
      BY <1>1
    <2>2. \A d \in Directions : active'[d] # 0 =>
            active'[d] \in Submitted /\ identity[active'[d]].d = d /\ step'[active'[d]] \in Busy
      BY <1>4, JobFacts DEF ActiveShape
    <2>3. \A k \in Submitted : step'[k] \in Busy => active'[identity[k].d] = k
      BY <1>4, JobFacts DEF ActiveShape, Busy
    <2> QED
      BY <1>1, <2>1, <2>2, <2>3 DEF ActiveShape
  <1>10. FutureShape'
    <2>1. \A k \in Submitted : k \in Jobs /\
            (future'[k] = "pending" <=> step'[k] \in Busy \cup {"queued"})
      BY <1>4, JobFacts DEF FutureShape, Busy
    <2> QED
      BY <1>1, <2>1 DEF FutureShape
  <1>11. NativeShape'
    <2>1. \A k \in 1 .. Len(gpu) : gpu[k] \in Jobs /\ gpu[k] # j
      BY RangeOfSeq DEF StateTypes, NativeShape
    <2>2. gpu' = gpu
      BY <1>1
    <2> QED
      BY <1>4, <2>1, <2>2 DEF NativeShape
  <1>12. identity' = identity /\ sgen' = sgen /\ next_generation' = next_generation
         /\ cancelled' = cancelled
    BY <1>1
  <1>13. GenerationShape'
    <2>1. next_generation \in Nat \ {0}
      BY SchedulerAssumption DEF StateTypes, SchedulerTypeOK
    <2>2. \A t \in Sessions, v \in Utterances : ugen'[t][v] < next_generation
      BY <1>5, <2>1 DEF GenerationShape
    <2>3. \A k \in Submitted : step'[k] = "queued" => sgen[identity[k].s] # 0
      BY <1>4, JobFacts DEF GenerationShape
    <2> QED
      BY <1>1, <1>12, <2>2, <2>3 DEF GenerationShape
  <1>14. ResultShape'
    <2> SUFFICES ASSUME NEW k \in Submitted, future'[k] = "result"
                 PROVE  ugen'[identity[k].s][identity[k].u] # identity[k].ug
      BY <1>1, <1>12 DEF ResultShape
    <2>1. /\ identity[k].s \in Sessions /\ identity[k].u \in Utterances /\ k \in Jobs
          /\ identity[k].ug # 0
      BY JobFacts DEF GenerationShape
    <2>2. CASE k = j
      BY <1>4, <1>6, <2>1, <2>2 DEF i
    <2>3. CASE k # j
      BY <1>4, <1>5, <2>1, <2>3 DEF ResultShape
    <2> QED
      BY <2>2, <2>3
  <1>15. ResultsAreCurrent'
    <2>1. \A k \in Jobs : cancelled[k] => future'[k] # "result"
      BY <1>4, <1>6 DEF ResultsAreCurrent
    <2>2. ASSUME NEW h \in Submitted, NEW k \in Submitted, h # k, identity[h] = identity[k],
                 future'[h] = "result", future'[k] = "result"
          PROVE  FALSE
      <3>1. h \in Jobs /\ k \in Jobs
        BY JobFacts
      <3>2. CASE h # j /\ k # j
        BY <1>4, <2>2, <3>1, <3>2 DEF ResultsAreCurrent, Submitted
      <3>3. CASE h = j
        BY <1>4, <1>6, <2>2, <3>1, <3>3 DEF ResultShape, i
      <3>4. CASE k = j
        BY <1>4, <1>6, <2>2, <3>1, <3>4 DEF ResultShape, i
      <3> QED
        BY <3>2, <3>3, <3>4
    <2> QED
      BY <1>1, <1>12, <2>1, <2>2 DEF ResultsAreCurrent, Submitted
  <1>16. AdmissionBound'
    <2>1. queue' = queue
      BY <1>1
    <2>2. \A d \in Directions : Cardinality(queue[d]) \in Nat
      BY QueueFacts
    <2> QED
      BY <1>3, <1>4, <2>1, <2>2, SchedulerAssumption DEF AdmissionBound
  <1>17. CleanupShape'
    <2>1. Running' = Running
      BY <1>4 DEF Running
    <2>2. /\ cleanup' = cleanup /\ closed' = closed /\ sgen' = sgen /\ gathered' = gathered
          /\ caller' = caller /\ queue' = queue
      BY <1>1
    <2> QED
      BY <2>1, <2>2 DEF CleanupShape, Left
  <1> QED
    BY <1>7, <1>8, <1>9, <1>10, <1>11, <1>13, <1>14, <1>15, <1>16, <1>17

\* Every step of a job.
LEMMA JobStepKeeps ==
    ASSUME NEW j \in Jobs
    PROVE  SchedulerInv /\ JobStep(j) => SchedulerInv'
  <1> SUFFICES ASSUME SchedulerInv, JobStep(j) PROVE SchedulerInv'
    OBVIOUS
  <1>1. CASE run_gpu(j) \/ GpuResult(j) \/ _task_done(j)
    BY <1>1, RunGpuKeeps, GpuResultKeeps, TaskDoneKeeps
  <1>2. CASE ensure_current(j)
    BY <1>2, EndsKeeps DEF ensure_current
  <1>3. CASE WorkRaises(j)
    BY <1>3, EndsKeeps DEF WorkRaises
  <1>4. CASE WorkReturns(j)
    BY <1>4, EndsKeeps DEF WorkReturns, MayDeliver
  <1> QED
    BY <1>1, <1>2, <1>3, <1>4 DEF JobStep

----------------------------------------------------------------------------
(* The theorems.                                                           *)

\* The invariant holds at the start.
LEMMA InitHolds == Init => SchedulerInv
  <1> SUFFICES ASSUME Init PROVE SchedulerInv
    OBVIOUS
  <1> USE DEF Init
  <1>1. /\ Len(identity) = 0 /\ Submitted = {} /\ Len(gpu) = 0
        /\ identity \in Seq(Identities) /\ gpu \in Seq(Jobs)
    BY DEF Submitted
  <1>2. StateTypes
    <2>1. 0 \in Generations /\ 0 \in Directions /\ 0 \in 0 .. MaxJobs /\ 0 \in 0 .. MaxNative
          /\ 1 \in 1 .. MaxGenerations + 1 /\ 0 <= MaxJobs
      BY SchedulerAssumption DEF Generations, Directions, NDirections
    <2>2. Range(identity) \subseteq Identities /\ Range(gpu) \subseteq Jobs
      BY <1>1, RangeOfSeq
    <2> QED
      BY <1>1, <2>1, <2>2 DEF StateTypes, SchedulerTypeOK
  <1>3. QueueShape /\ ActiveShape /\ FutureShape /\ NativeShape /\ ResultShape
    BY <1>1 DEF QueueShape, ActiveShape, FutureShape, NativeShape, ResultShape
  <1>4. GenerationShape
    BY <1>1 DEF GenerationShape
  <1>5. AdmissionBound
    BY FS_EmptySet, SchedulerAssumption DEF AdmissionBound
  <1>6. ResultsAreCurrent /\ CleanupShape
    BY <1>1 DEF ResultsAreCurrent, CleanupShape, Left, Submitted
  <1> QED
    BY <1>2, <1>3, <1>4, <1>5, <1>6 DEF SchedulerInv

\* Every step keeps the invariant.
LEMMA NextKeeps == SchedulerInv /\ [Next]_vars => SchedulerInv'
  <1> SUFFICES ASSUME SchedulerInv, [Next]_vars PROVE SchedulerInv'
    OBVIOUS
  <1>1. CASE ClientStep
    BY <1>1, OpenSessionKeeps, OpenUtteranceKeeps, SubmitKeeps, CancelUtteranceKeeps,
       CloseSessionKeeps, ShutdownKeeps, CancelCallerKeeps DEF ClientStep
  <1>2. CASE _dispatch_loop
    BY <1>2, DispatchLoopKeeps
  <1>3. CASE \E j \in Jobs : JobStep(j)
    BY <1>3, JobStepKeeps
  <1>4. CASE _run_native
    BY <1>4, RunNativeKeeps
  <1>5. CASE CleanupStep
    BY <1>5, ShutdownImplKeeps, GatherReturnsKeeps, ExecutorsShutDownKeeps DEF CleanupStep
  <1>6. CASE \E c \in Callers : ShutdownReturns(c)
    BY <1>6, ShutdownReturnsKeeps
  <1>7. CASE UNCHANGED vars
    BY <1>7 DEF SchedulerInv, vars, sessionVars, jobVars, dispatchVars, shutdownVars, StateTypes,
       SchedulerTypeOK, QueueShape, ActiveShape, FutureShape, NativeShape, GenerationShape,
       AdmissionBound, ResultsAreCurrent, ResultShape, CleanupShape, Submitted, Running, Left
  <1> QED
    BY <1>1, <1>2, <1>3, <1>4, <1>5, <1>6, <1>7 DEF Next, Closed

\* The invariant holds in every state of the scheduler.
LEMMA SchedulerInvariant == Spec => []SchedulerInv
  BY InitHolds, NextKeeps, PTL DEF Spec

\* No path of submit, dispatch, cancellation or completion loses a job, resolves one it
\* keeps, or lets a direction run two (_queues and _active).
THEOREM JobsKeepTheirHome == Spec => []JobsHaveHome
  <1>1. SchedulerInv => JobsHaveHome
    <2> SUFFICES ASSUME SchedulerInv PROVE JobsHaveHome
      OBVIOUS
    <2> USE DEF SchedulerInv
    <2>1. \A j \in Submitted : future[j] = "pending" <=>
            active[identity[j].d] = j \/ j \in queue[identity[j].d]
      <3> SUFFICES ASSUME NEW j \in Submitted
                   PROVE  future[j] = "pending" <=>
                            active[identity[j].d] = j \/ j \in queue[identity[j].d]
        OBVIOUS
      <3>1. identity[j].d \in Directions /\ j # 0
        BY JobFacts DEF Submitted
      <3>2. step[j] \in Busy <=> active[identity[j].d] = j
        BY <3>1 DEF ActiveShape
      <3>3. step[j] = "queued" <=> j \in queue[identity[j].d]
        BY <3>1 DEF QueueShape
      <3> QED
        BY <3>2, <3>3 DEF FutureShape
    <2>2. ASSUME NEW d \in Directions
          PROVE  {j \in Submitted : identity[j].d = d /\ step[j] \in Busy} = {active[d]} \ {0}
      BY JobFacts DEF ActiveShape, Submitted
    <2> QED
      BY <2>1, <2>2 DEF JobsHaveHome, StateTypes, Submitted, Busy
  <1> QED
    BY <1>1, SchedulerInvariant, PTL

\* A direction holds at most one job more than its queue may (submit).
THEOREM AdmissionIsBounded == Spec => []AdmissionBound
  <1>1. SchedulerInv => AdmissionBound
    BY DEF SchedulerInv
  <1> QED
    BY <1>1, SchedulerInvariant, PTL

\* Cancelled work delivers nothing, and an utterance at most one result (SchedulerContext,
\* _terminalize).
THEOREM ResultsStayCurrent == Spec => []ResultsAreCurrent
  <1>1. SchedulerInv => ResultsAreCurrent
    BY DEF SchedulerInv
  <1> QED
    BY <1>1, SchedulerInvariant, PTL

\* When shutdown has returned to any caller nothing is left (_shutdown_impl).
THEOREM ShutdownLeavesIdle == Spec => []ShutdownDrains
  <1>1. SchedulerInv => ShutdownDrains
    <2> SUFFICES ASSUME SchedulerInv, NEW c \in Callers, Left(c)
                 PROVE  /\ \A s \in Sessions : sgen[s] = 0
                        /\ QueuedJobs = {} /\ Running = {} /\ gpu = <<>>
                        /\ \A j \in Jobs : future[j] # "pending"
      BY DEF ShutdownDrains
    <2> USE DEF SchedulerInv
    <2>1. /\ \A s \in Sessions : sgen[s] = 0
          /\ \A d \in Directions : queue[d] = {}
          /\ Running = {}
      BY DEF CleanupShape
    <2>2. QueuedJobs = {}
      BY <2>1 DEF QueuedJobs
    <2>3. gpu = <<>>
      <3>1. gpu \in Seq(Jobs) /\ \A k \in 1 .. Len(gpu) : gpu[k] \in Running
        BY RangeOfSeq DEF StateTypes, NativeShape, Running
      <3> QED
        BY <2>1, <3>1
    <2>4. \A j \in Jobs : future[j] # "pending"
      <3> SUFFICES ASSUME NEW j \in Jobs, future[j] = "pending" PROVE FALSE
        OBVIOUS
      <3>1. j \in Submitted
        BY DEF QueueShape
      <3>2. step[j] \in Busy \cup {"queued"}
        BY <3>1 DEF FutureShape
      <3>3. j \notin Running /\ \A d \in Directions : j \notin queue[d]
        BY <2>1
      <3> QED
        BY <3>1, <3>2, <3>3, JobFacts DEF Running, Busy, QueueShape
    <2> QED
      BY <2>1, <2>2, <2>3, <2>4
  <1> QED
    BY <1>1, SchedulerInvariant, PTL
=============================================================================
