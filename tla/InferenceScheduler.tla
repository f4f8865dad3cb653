--------------------------- MODULE InferenceScheduler ---------------------------
(***************************************************************************)
(* The scheduler of the local provider's native inference                  *)
(* (sidecar/translator_sidecar/local/inference_scheduler.py): admission    *)
(* per direction, one active job per direction, generations that make the  *)
(* results of cancelled work inert, a single GPU worker, and a shutdown    *)
(* shared by all its callers.  The code runs on one asyncio loop, so every *)
(* action is the code between two awaits; the GPU worker is a thread.  The *)
(* work of a job is any sequence of native operations that ends by         *)
(* returning or raising; the bridge of stream_tts is not modelled.         *)
(***************************************************************************)
EXTENDS Integers, Sequences, FiniteSets, Functions

CONSTANTS
  Sessions,            \* session ids of the provider's clients
  Utterances,          \* utterance ids
  Callers,             \* tasks that may call shutdown
  QueuedPerDirection,  \* _QUEUED_PER_DIRECTION
  MaxGenerations,      \* bound: generations allocated
  MaxJobs,             \* bound: jobs submitted
  MaxNative            \* bound: native operations of one job

ASSUME SchedulerAssumption ==
  /\ QueuedPerDirection \in Nat \ {0}
  /\ MaxGenerations \in Nat \ {0} /\ MaxJobs \in Nat \ {0} /\ MaxNative \in Nat

NDirections == 2
Directions == 0 .. NDirections - 1   \* tuple(AudioDirection), by index
Jobs == 1 .. MaxJobs
Generations == 0 .. MaxGenerations   \* 0: no entry in the dictionary
Identities ==
  [s : Sessions, u : Utterances, d : Directions, sg : Generations, ug : Generations]

VARIABLES
  sdir, sgen,       \* _sessions: direction and generation of a session
  ugen,             \* utterances of a session with their generations
  next_generation,
  queue,            \* _queues: jobs are numbered as they are appended, so a set has their order
  active,           \* _active; 0: None
  round_robin,      \* _round_robin_index
  identity,         \* _Job.identity of each submitted job
  future,           \* _Job.future
  cancelled,        \* _Job.cancelled
  step,             \* where a job is: queued, its task, or gone
  natives,          \* native operations a job has asked for
  gpu,              \* jobs in the GPU executor, the first one running
  dispatcher,       \* _dispatcher: none, wait, returned
  signal,           \* _dispatch_signal
  closed,           \* _closed
  cleanup,          \* _shutdown_task: none, created, gather, join, done
  gathered,         \* the tasks cleanup waits for
  caller            \* callers of shutdown: out, waiting, interrupted, returned, raised

sessionVars == <<sdir, sgen, ugen, next_generation>>
jobVars == <<identity, future, cancelled, step, natives, gpu>>
dispatchVars == <<queue, active, round_robin, dispatcher, signal>>
shutdownVars == <<closed, cleanup, gathered, caller>>
vars == <<sessionVars, jobVars, dispatchVars, shutdownVars>>

Init ==
  /\ sdir = [s \in Sessions |-> 0] /\ sgen = [s \in Sessions |-> 0]
  /\ ugen = [s \in Sessions |-> [u \in Utterances |-> 0]]
  /\ next_generation = 1
  /\ queue = [d \in Directions |-> {}] /\ active = [d \in Directions |-> 0]
  /\ round_robin = 0
  /\ identity = <<>>
  /\ future = [j \in Jobs |-> "none"] /\ cancelled = [j \in Jobs |-> FALSE]
  /\ step = [j \in Jobs |-> "none"] /\ natives = [j \in Jobs |-> 0]
  /\ gpu = <<>>
  /\ dispatcher = "none" /\ signal = FALSE
  /\ closed = FALSE /\ cleanup = "none" /\ gathered = {}
  /\ caller = [c \in Callers |-> "out"]

-----------------------------------------------------------------------------
\* Mutant: a session opened again under its id counts as the old one.
SameUtterance(i) == sgen[i.s] # 0 /\ sdir[i.s] = i.d /\ ugen[i.s][i.u] # 0

_is_current(i) ==
  /\ sgen[i.s] # 0 /\ sdir[i.s] = i.d
  /\ sgen[i.s] = i.sg /\ ugen[i.s][i.u] = i.ug

\* SchedulerContext.cancelled
Stale(j) == cancelled[j] \/ ~_is_current(identity[j])

\* _running_tasks: from create_task until the done callback has run.
Running == {j \in Jobs : step[j] \in {"work", "gpu", "resume", "done"}}

\* asyncio.Event.set, once the event exists.
SetSignal == signal' = (dispatcher # "none" \/ signal)

-----------------------------------------------------------------------------
open_session(s, d) ==
  /\ ~closed
  /\ sgen[s] = 0
  /\ next_generation <= MaxGenerations
  /\ sgen' = [sgen EXCEPT ![s] = next_generation]
  /\ sdir' = [sdir EXCEPT ![s] = d]
  /\ ugen' = [ugen EXCEPT ![s] = [u \in Utterances |-> 0]]
  /\ next_generation' = next_generation + 1
  /\ UNCHANGED <<jobVars, dispatchVars, shutdownVars>>

open_utterance(s, u) ==
  /\ sgen[s] # 0 /\ ugen[s][u] = 0
  /\ next_generation <= MaxGenerations
  /\ ugen' = [ugen EXCEPT ![s][u] = next_generation]
  /\ next_generation' = next_generation + 1
  /\ UNCHANGED <<sdir, sgen, jobVars, dispatchVars, shutdownVars>>

\* Mutant: the extra place is granted although a job is active.
RoomyAdmission(d) == QueuedPerDirection + 1

AdmissionCapacity(d) == QueuedPerDirection + (IF active[d] = 0 THEN 1 ELSE 0)

\* submit with the identity open_utterance returned for u; another identity is
\* refused and changes nothing, and so is a full queue.  The same identity may be
\* submitted more than once while it is current.
submit(s, u) ==
  LET d == sdir[s]
      j == Len(identity) + 1
  IN /\ ~closed /\ sgen[s] # 0 /\ ugen[s][u] # 0
     /\ Cardinality(queue[d]) < AdmissionCapacity(d)
     /\ j <= MaxJobs
     /\ identity' = Append(identity, [s |-> s, u |-> u, d |-> d, sg |-> sgen[s], ug |-> ugen[s][u]])
     /\ future' = [future EXCEPT ![j] = "pending"]
     /\ step' = [step EXCEPT ![j] = "queued"]
     /\ queue' = [queue EXCEPT ![d] = @ \cup {j}]
     /\ dispatcher' = IF dispatcher = "none" THEN "wait" ELSE dispatcher
     /\ signal' = TRUE
     /\ UNCHANGED <<sessionVars, cancelled, natives, gpu, active, round_robin, shutdownVars>>

-----------------------------------------------------------------------------
ActiveJobs == {active[d] : d \in Directions} \ {0}
QueuedJobs == UNION {queue[d] : d \in Directions}

PurgedFutures(M) ==
  [j \in Jobs |-> IF j \in M \cap QueuedJobs /\ future[j] = "pending" THEN "stale" ELSE future[j]]

_cancel_matching(M) ==
  /\ cancelled' = [j \in Jobs |-> cancelled[j] \/ j \in M \cap (ActiveJobs \cup QueuedJobs)]
  /\ future' = PurgedFutures(M)
  /\ step' = [j \in Jobs |-> IF j \in M \cap QueuedJobs THEN "gone" ELSE step[j]]
  /\ queue' = [d \in Directions |-> queue[d] \ M]
  /\ SetSignal

JobsOf(s) == {j \in 1 .. Len(identity) : identity[j].s = s}

cancel_utterance(s, u) ==
  /\ sgen[s] # 0 /\ ugen[s][u] # 0
  /\ ugen' = [ugen EXCEPT ![s][u] = 0]
  /\ _cancel_matching({j \in JobsOf(s) : identity[j].u = u})
  /\ UNCHANGED <<sdir, sgen, next_generation, identity, natives, gpu, active, round_robin,
                 dispatcher, shutdownVars>>

close_session(s) ==
  /\ sgen[s] # 0
  /\ sgen' = [sgen EXCEPT ![s] = 0] /\ sdir' = [sdir EXCEPT ![s] = 0]
  /\ ugen' = [ugen EXCEPT ![s] = [u \in Utterances |-> 0]]
  /\ _cancel_matching(JobsOf(s))
  /\ UNCHANGED <<next_generation, identity, natives, gpu, active, round_robin,
                 dispatcher, shutdownVars>>

-----------------------------------------------------------------------------
\* The job the loop over popleft stops at, if there is one: the first that is current.
Current(d) == {j \in queue[d] : _is_current(identity[j])}
FirstCurrent(d) == CHOOSE j \in Current(d) : \A k \in Current(d) : j <= k

\* The jobs _dispatch_available takes from a queue, the ones it starts, and the ones it
\* drops on its way.
Starts(d) == active[d] = 0 /\ Current(d) # {}
Popped(d) == {j \in queue[d] : active[d] = 0 /\ \A k \in Current(d) : j <= k}
Started == {FirstCurrent(d) : d \in {e \in Directions : Starts(e)}}
Dropped == (UNION {Popped(d) : d \in Directions}) \ Started

\* The last direction served in the order of the loop.
LastServed(served) ==
  LET Offset(d) == (d - round_robin) % NDirections
  IN CHOOSE d \in served : \A e \in served : Offset(e) <= Offset(d)

NextIndex(served) ==
  IF served = {} THEN round_robin ELSE (LastServed(served) + 1) % NDirections

_dispatch_available ==
  /\ active' = [d \in Directions |-> IF Starts(d) THEN FirstCurrent(d) ELSE active[d]]
  /\ queue' = [d \in Directions |-> queue[d] \ Popped(d)]
  /\ future' = [j \in Jobs |-> IF j \in Dropped THEN "stale" ELSE future[j]]
  /\ step' = [j \in Jobs |-> CASE j \in Dropped -> "gone"
                              [] j \in Started -> "work"
                              [] OTHER -> step[j]]
  /\ round_robin' = NextIndex({d \in Directions : Starts(d)})

_has_dispatchable(a, q) == \E d \in Directions : a[d] = 0 /\ q[d] # {}

\* One turn of _dispatch_loop, from the end of one wait to the next.
_dispatch_loop ==
  /\ dispatcher = "wait" /\ signal
  /\ _dispatch_available
  /\ IF closed /\ Running \cup Started = {}
     THEN dispatcher' = "returned" /\ UNCHANGED signal
     ELSE UNCHANGED dispatcher /\ signal' = _has_dispatchable(active', queue')
  /\ UNCHANGED <<sessionVars, identity, cancelled, natives, gpu, shutdownVars>>

-----------------------------------------------------------------------------
_terminalize(i) ==
  ugen' = IF sgen[i.s] # 0 /\ sgen[i.s] = i.sg /\ ugen[i.s][i.u] = i.ug
          THEN [ugen EXCEPT ![i.s][i.u] = 0] ELSE ugen

\* Mutant: an error leaves the slot of the direction taken.
FreesOnResult(j, outcome) ==
  active' = [d \in Directions |-> IF active[d] = j /\ outcome = "result" THEN 0 ELSE active[d]]

FreesSlot(j, outcome) ==
  active' = [d \in Directions |-> IF active[d] = j THEN 0 ELSE active[d]]

\* The except, else and finally blocks of _run_job.
Ends(j, outcome) ==
  /\ natives' = [natives EXCEPT ![j] = 0]
  /\ _terminalize(identity[j])
  /\ future' = [future EXCEPT ![j] = IF @ = "pending" THEN outcome ELSE @]
  /\ FreesSlot(j, outcome)
  /\ SetSignal
  /\ step' = [step EXCEPT ![j] = "done"]
  /\ UNCHANGED <<sdir, sgen, next_generation, identity, cancelled, gpu, queue,
                 round_robin, dispatcher, shutdownVars>>

\* run_gpu up to its await.
run_gpu(j) ==
  /\ step[j] = "work" /\ ~Stale(j)
  /\ natives[j] < MaxNative
  /\ natives' = [natives EXCEPT ![j] = @ + 1]
  /\ gpu' = Append(gpu, j)
  /\ step' = [step EXCEPT ![j] = "gpu"]
  /\ UNCHANGED <<sessionVars, identity, future, cancelled, dispatchVars, shutdownVars>>

\* The only GPU worker finishes an operation; its outcome is not looked at here, as
\* the work may let SchedulerUnavailable out or go on without the result.
_run_native ==
  /\ gpu # <<>>
  /\ gpu' = Tail(gpu)
  /\ step' = [step EXCEPT ![Head(gpu)] = "resume"]
  /\ UNCHANGED <<sessionVars, identity, future, cancelled, natives, dispatchVars, shutdownVars>>

\* run_gpu after its await, for a job that is still current.
GpuResult(j) ==
  /\ step[j] = "resume" /\ ~Stale(j)
  /\ step' = [step EXCEPT ![j] = "work"]
  /\ UNCHANGED <<sessionVars, identity, future, cancelled, natives, gpu, dispatchVars, shutdownVars>>

\* ensure_current raises SchedulerStale, in run_gpu, in stream_tts or after the work.
ensure_current(j) ==
  /\ step[j] \in {"work", "resume"} /\ Stale(j)
  /\ Ends(j, "stale")

WorkRaises(j) == step[j] = "work" /\ Ends(j, "unavailable")

MayDeliver(j) == ~Stale(j)

WorkReturns(j) == step[j] = "work" /\ MayDeliver(j) /\ Ends(j, "result")

\* Mutant: the callback only forgets the task; the signal was set when it ended.
DoneQuietly == UNCHANGED signal

DoneSignals == SetSignal

_task_done(j) ==
  /\ step[j] = "done"
  /\ step' = [step EXCEPT ![j] = "gone"]
  /\ DoneSignals
  /\ UNCHANGED <<sessionVars, identity, future, cancelled, natives, gpu, queue, active,
                 round_robin, dispatcher, shutdownVars>>

-----------------------------------------------------------------------------
\* shutdown up to its first await; only the first caller creates the task.
shutdown(c) ==
  /\ caller[c] = "out"
  /\ caller' = [caller EXCEPT ![c] = "waiting"]
  /\ closed' = TRUE
  /\ cleanup' = IF cleanup = "none" THEN "created" ELSE cleanup
  /\ UNCHANGED <<sessionVars, jobVars, dispatchVars, gathered>>

\* Mutant: a cancelled caller does not wait for the cleanup.
RaisesAtOnce == "raised"

AfterCancel == "interrupted"

\* The task of a caller is cancelled: the shield keeps the cleanup alive and the
\* caller goes on waiting.
CancelCaller(c) ==
  /\ caller[c] = "waiting"
  /\ caller' = [caller EXCEPT ![c] = AfterCancel]
  /\ UNCHANGED <<sessionVars, jobVars, dispatchVars, closed, cleanup, gathered>>

ShutdownReturns(c) ==
  /\ cleanup = "done" /\ caller[c] \in {"waiting", "interrupted"}
  /\ caller' = [caller EXCEPT ![c] = IF @ = "waiting" THEN "returned" ELSE "raised"]
  /\ UNCHANGED <<sessionVars, jobVars, dispatchVars, closed, cleanup, gathered>>

\* _shutdown_impl up to its first await: close_session for every session.
_shutdown_impl ==
  /\ cleanup = "created"
  /\ sgen' = [s \in Sessions |-> 0] /\ sdir' = [s \in Sessions |-> 0]
  /\ ugen' = [s \in Sessions |-> [u \in Utterances |-> 0]]
  /\ _cancel_matching(UNION {JobsOf(s) : s \in {t \in Sessions : sgen[t] # 0}})
  /\ gathered' = Running
  /\ cleanup' = "gather"
  /\ UNCHANGED <<next_generation, identity, natives, gpu, active, round_robin,
                 dispatcher, closed, caller>>

\* gather returns when the tasks it was given have ended; its callback on a task
\* runs after _task_done.
GatherReturns ==
  /\ cleanup = "gather" /\ \A j \in gathered : step[j] = "gone"
  /\ cleanup' = "join"
  /\ UNCHANGED <<sessionVars, jobVars, dispatchVars, closed, gathered, caller>>

\* The dispatcher has returned; the executors are shut down, which waits for the
\* native operation that runs and cancels the ones that wait.
ExecutorsShutDown ==
  /\ cleanup = "join" /\ dispatcher \in {"none", "returned"}
  /\ cleanup' = "done"
  /\ UNCHANGED <<sessionVars, jobVars, dispatchVars, closed, gathered, caller>>

-----------------------------------------------------------------------------
ClientStep ==
  \/ \E s \in Sessions, d \in Directions : open_session(s, d)
  \/ \E s \in Sessions, u \in Utterances : open_utterance(s, u) \/ submit(s, u) \/ cancel_utterance(s, u)
  \/ \E s \in Sessions : close_session(s)
  \/ \E c \in Callers : shutdown(c) \/ CancelCaller(c)

JobStep(j) ==
  \/ run_gpu(j) \/ GpuResult(j) \/ ensure_current(j)
  \/ WorkRaises(j) \/ WorkReturns(j) \/ _task_done(j)

CleanupStep == _shutdown_impl \/ GatherReturns \/ ExecutorsShutDown

\* The scheduler at rest after its shutdown.
Left(c) == caller[c] \in {"returned", "raised"}
Closed == cleanup = "done" /\ (\A c \in Callers : Left(c)) /\ UNCHANGED vars

Next ==
  \/ ClientStep
  \/ _dispatch_loop
  \/ \E j \in Jobs : JobStep(j)
  \/ _run_native
  \/ CleanupStep
  \/ \E c \in Callers : ShutdownReturns(c)
  \/ Closed

Spec == Init /\ [][Next]_vars

\* The loop schedules every task that is ready, the worker's native operations
\* return, and the work of a job ends (its native operations are bounded).
FairSpec ==
  /\ Spec
  /\ WF_vars(_dispatch_loop) /\ WF_vars(_run_native) /\ WF_vars(CleanupStep)
  /\ \A j \in Jobs : WF_vars(JobStep(j))
  /\ \A c \in Callers : WF_vars(ShutdownReturns(c))

-----------------------------------------------------------------------------
\* The state of the scheduler has the types its dictionaries promise, and the
\* round robin stays inside the tuple of directions.
SchedulerTypeOK ==
  /\ sdir \in [Sessions -> Directions] /\ sgen \in [Sessions -> Generations]
  /\ ugen \in [Sessions -> [Utterances -> Generations]]
  /\ next_generation \in 1 .. MaxGenerations + 1
  /\ queue \in [Directions -> SUBSET Jobs]
  /\ active \in [Directions -> 0 .. MaxJobs] /\ round_robin \in Directions
  /\ Len(identity) <= MaxJobs /\ Range(identity) \subseteq Identities
  /\ future \in [Jobs -> {"none", "pending", "result", "stale", "unavailable"}]
  /\ cancelled \in [Jobs -> BOOLEAN] /\ natives \in [Jobs -> 0 .. MaxNative]
  /\ step \in [Jobs -> {"none", "queued", "work", "gpu", "resume", "done", "gone"}]
  /\ Range(gpu) \subseteq Jobs
  /\ dispatcher \in {"none", "wait", "returned"} /\ signal \in BOOLEAN
  /\ closed \in BOOLEAN /\ gathered \subseteq Jobs
  /\ cleanup \in {"none", "created", "gather", "join", "done"}
  /\ caller \in [Callers -> {"out", "waiting", "interrupted", "returned", "raised"}]

\* A job whose future is unresolved is in exactly the queue of its direction or is
\* its active job, and nothing else is: no path of submit, dispatch, cancellation
\* or completion loses a job or resolves one it keeps.  The active slot of a direction
\* and the task that runs for it are the same job, so a direction never runs two jobs
\* and never keeps a slot for a job that ended.
JobsHaveHome ==
  /\ SchedulerTypeOK
  /\ \A j \in 1 .. Len(identity) :
       future[j] = "pending" <=>
         \/ active[identity[j].d] = j
         \/ j \in queue[identity[j].d]
  /\ \A d \in Directions :
       {j \in 1 .. Len(identity) : identity[j].d = d /\ step[j] \in {"work", "gpu", "resume"}}
         = {active[d]} \ {0}

\* A direction holds one job more than its queue may, whether or not the dispatcher
\* has already taken it from the queue when the next one is submitted.
AdmissionBound ==
  \A d \in Directions :
    Cardinality(queue[d]) + (IF active[d] = 0 THEN 0 ELSE 1) <= QueuedPerDirection + 1

\* A job that was cancelled while queued or active never delivers a result, however
\* far its native work had got.  One opened utterance yields at most one result, though
\* its identity can be submitted again while it is queued and its id opened again later.
ResultsAreCurrent ==
  /\ \A j \in Jobs : cancelled[j] => future[j] # "result"
  /\ \A i, j \in 1 .. Len(identity) :
       i # j /\ identity[i] = identity[j] => ~(future[i] = "result" /\ future[j] = "result")

\* When shutdown has returned to any caller, cancelled or not, nothing is left: no
\* session, queued job, running task, native operation or unresolved future.
ShutdownDrains ==
  (\E c \in Callers : Left(c)) =>
    /\ \A s \in Sessions : sgen[s] = 0
    /\ QueuedJobs = {} /\ Running = {} /\ gpu = <<>>
    /\ \A j \in Jobs : future[j] # "pending"

\* Everybody is answered: every submitted job gets its result or its error, whatever is
\* cancelled or closed meanwhile, and once the scheduler is closed every caller of
\* shutdown leaves, because the dispatcher does not miss the end of the last task.
EverybodyIsAnswered ==
  /\ \A j \in Jobs : future[j] = "pending" ~> future[j] # "pending"
  /\ \A c \in Callers : caller[c] = "waiting" ~> Left(c)
=============================================================================
