# Verification of the duplex translator

TLA+ models, TLC runs and TLAPS proofs for the translator in this repository: a
Rust daemon that captures both sides of a conversation, a Python sidecar that
recognises, translates and speaks them, and the PulseAudio graph between them.
The models are translated from the code; each definition's lines are in
`PROJECT.json` under `map`.

## 1. The system

The user starts translation through the control API. The daemon takes the audio
gate, spawns a runtime thread, starts the sidecar process, and runs one task for
each direction (microphone to the remote side, remote side to the speaker). A
direction captures PCM, cuts it into utterances, streams them to the sidecar over
gRPC on a Unix socket, and plays the translated audio that comes back. Beside it a
watcher loop keeps three virtual endpoints loaded in the sound server, one
application routed into them, and loopbacks and volumes in line with the settings.
A self test plays a user's sentence through both directions.

| Component | State | Operations | Talks to |
| --- | --- | --- | --- |
| audio operation gate (`audio_operation_gate.rs`) | state, generation, leases | acquire (production, manual, round trip), release, begin stopping | every client that touches audio |
| duplex runtime handle and thread (`translation_runtime.rs`) | active runtime and its lease, stop and acknowledgement channels, restart budget | start, stop, launch, prepare, run a generation, restart | gate, supervisor, directions |
| generation policy barrier (`translation_runtime.rs`) | active flag of each direction, reopen request | set active, request reopen, close for policy | the two direction tasks |
| direction session (`translation_runtime.rs` `run_direction`, `direction_session.rs`) | collecting and active utterances | capture, end of utterance, provider events, poll, close | segmenter, watchdog, validator, playback |
| provider watchdog and stream coordinator (`provider_audio_watchdog.rs`) | phase and deadline of each utterance, session phase | start, end, audio, final, cancel, close, restart | validator, direction |
| provider event validator (`translator-ipc/validation.rs`) | sequences, pending terminals, capacities | validate every event and request | coordinator |
| sidecar supervisor (`sidecar_supervisor.rs`) | launch, readiness, sessions | start with retries, register, close, shutdown | process runtime |
| sidecar process (`process_sidecar.rs`, `sidecar_runtime.rs`) | child handle, process group, socket path | spawn, probe, kill the group, reap, remove a stale socket, drop | operating system |
| incoming route (`translator-audio/routing.rs`, `journal.rs`) | active route, selected application, recovery pending; route journal | inspect, reconcile, restore, route by hand, recover | PulseAudio, PipeWire, watcher loop |
| audio graph (`translator-audio/pulse.rs`, `journal.rs`) | ownership journal, generation | ensure endpoints, inspect, reconcile, roll back, clean up | PulseAudio, watcher loop, shutdown, command line |
| control API and runtime store (`api.rs`, `runtime_state.rs`) | one snapshot under a lock, event bus | patches, start, stop, reconfigure, provider changes, event stream | runtime handle, watcher loop |
| watcher loop, loopbacks, shutdown (`main.rs`, `translator-audio/mix.rs`) | lifecycle flag, loopback modules, applied volumes | refresh, ensure loopbacks, apply volumes, shut down in order | store, graph, route |
| round-trip self test (`round_trip*.rs`) | session and its checkpoints, retained runtime, observer flags, resources | start, stop, stages of the thread, teardown, observation | gate, duplex runtime, audio processes |
| sidecar server and provider engine (`grpc_server.py`, `provider_engine.py`) | session slots, stream tasks | open, input, cancel, close | local or OpenAI provider |
| local provider and inference scheduler (`local/*.py`) | sessions, utterances, publication queues; job queues, generations | pipeline ASR, MT, TTS; submit, cancel, dispatch, shutdown | models |
| latency policy (`latency.rs`), debug capture (`debug.rs`), queues, segmenter, devices, echo cancellation | windows; consent and expiry; buffers; default devices; one module | | |

What is hard in this code:

* **Concurrency.** A handle under a mutex with threads that outlive its calls; two
  direction tasks joined by a barrier; handlers that read the store, wait and write
  it again, and are dropped when their client gives up; a self test that two threads take
  through its stages; asyncio tasks and a GPU thread in the sidecar; processes that exit while a call waits for them.
* **Time.** Start acknowledgement and stop timeouts, five deadlines of an utterance
  and its session, readiness probes, deadlines of a stage and of a teardown, commands
  that time out after they have taken effect, calls into the provider that have no timeout.
* **Failure.** A sidecar that crashes or hangs, group leaders that die before their
  descendants, sockets left behind, dropped owners, a restart budget; a daemon killed
  between a change of the sound server and the journal entry for it; a sound server
  that restarts and hands out the journal's module indices again.
* **Agreement of copies.** Watchdog, validator and session keep the same
  utterances; the supervisor caches readiness; the barrier caches activity; the store
  repeats what the runtime handle knows; two journals repeat what the sound server has.

`PROJECT.json` lists the single hazards under `hazards`, each at its line, with the
property that covers it.

## 2. Modules

```
AudioAdmission <--implements-- AudioOperationGate <--extended by-- RoundTrip
      ^ extended by
DuplexRuntime ....abstracts.... DirectionSession, SidecarSupervisor
      :
      :....seen through start and stop by.... ControlPlane

RoutingWatcher, AudioGraph     (one call each of the watcher loop that
                                ControlPlane drives)
InferenceScheduler             (inside the sidecar)
```

* **AudioAdmission** is the abstract specification: at most one client operates
  audio, nobody is admitted once the daemon is stopping, and an operation that was
  running may finish.
* **AudioOperationGate** is the gate with its states, saturating generation and
  leases. `BeginStopping` saturates at `MaxGeneration` (u64::MAX in the code), so the
  case where a lease still has the current generation of a stopping gate is reached.
  The refinement mapping takes the clients with an active lease for `operating`. TLC
  checks it inside `RoundTrip`, which adds a client that takes and drops leases in
  all the ways the self test does; TLAPS proves it alone.
* **DirectionSession** is one direction with its watchdog and validator. An action
  is one handler of `run_direction`'s select: a captured frame (`SpeechStarted`,
  `CaptureFrame`, `EndOfUtterance`), one provider event (`AudioDelta`, `TextDelta`,
  `Latency`, `ProviderError`, `UtteranceFinal`, `SessionClosed`, `Health`, ...), a
  tick of the watchdog interval (`Poll`), a stop. The provider is arbitrary: any
  event at any time, and anything whose envelope the validator refuses is
  `Malformed`. Time is the ticks left before each deadline. Opening the stream, sending to
  the provider and writing to the playback device have no timeout: a handler that does one
  of them may leave the loop `blocked`, and while it is, no handler runs and no deadline
  is looked at. It may stay so for ever.
* **DuplexRuntime** is the handle, its threads, the generations, the two direction
  tasks and the policy barrier. It extends `AudioAdmission`, so the gate is used
  through what it promises. A direction is reduced to its utterances in progress and
  how it ends; the sidecar to whether its process lives. A direction may be `stuck` in one
  of the calls without a timeout (`Hang`); then it sees neither the stop nor the peer.
* **SidecarSupervisor** is the supervisor over the process runtime. Processes are
  leaders with optional descendants in one group; they exit, fork, bind the socket
  and leave it behind whenever they like. A supervisor may be dropped and replaced,
  as the runtime does on its error paths.
* **InferenceScheduler** is the scheduler of native work in the local provider. Each
  action is the code between two awaits of the asyncio loop; the GPU worker is a
  thread with a first-in first-out queue. Jobs are numbered in the order they are
  submitted, so a direction's queue is the set of its waiting numbers and its head the
  least of them. A job's work is any sequence of native
  operations that ends by returning or raising. Nobody cancels a job's future in
  this code, and the model does not either.
* **RoutingWatcher** is `PulseRoutingWatcher`. The world is what the sound server
  has: for each stream its application, the sink it reports and the links it really
  has, for each capture its source. A call (`Refresh`, `ManualRoute`,
  `RestoreOnStop`) makes its decision in the action of that name and leaves it in
  `call`: the route to make, the route to give up, the labels that remain. Then every
  command is a step: `RestoreOld`, `DropOutput`, `ClearOld`, `MoveNew`, `LinkNew`,
  `PersistNew`, `RouteOutput`, `UndoOutput`, `Undo`, `MoveStale`. A command succeeds,
  is refused, or times out after its effect. Streams and captures change, devices
  come and go, and the daemon is stopped or killed between any two commands; what
  survives it is the journal and the world.
* **AudioGraph** is `PulseAudioGraph` with its ownership journal. `task` is the call
  that holds the journal's file lock; its steps are the commands and the writes, in
  the order of `ensure_endpoints`, `reconcile_ownership`, `cleanup_reconciled`,
  `create_endpoints` and `rollback_new_modules`. A module is its role and the
  generation in its arguments (0 when it is not ours). A write may fail before or
  after its rename, a command before or after its effect.
* **ControlPlane** is the handlers, the store with its event stream, the watcher loop
  and the shutdown. A request is a task with a program counter; the steps are the
  code between two awaits (`RequestRefresh`, `Snapshot`, `StartCall`, `SetRunning`,
  `ReadRunning`, `set_direction`, `ReconfigureStop`, ...). A client that gives up
  (`Disconnect`; the desktop UI waits 1.5 s for a PATCH) drops its handler at an await: the
  blocking call goes on, what would follow it does not happen (`Resume`). The runtime is the
  pair of calls `StartRuntime` and `StopRuntime`; `runtime` is what the handle has, which may
  have ended by itself, so that any stop of it may fail. The watcher reads the volumes (`Tick`),
  refreshes (`TickRefresh`, `ReadDevices`, `ReadRequests`, `EnsureLoopbacks`) and
  applies what it has read (`TickApply`).
* **RoundTrip** is the self test over the gate: the controller (`Start`,
  `StartRefused`, `StopCalled`, `StopAnswered`, `StopTimesOut`), the worker thread
  (`Build` to `MarkCompleted`, `StepFails`, `StopSeen`, the deadline of the whole, then
  the teardown `RestoreRoute` to `ReleaseAll`), and the observer, whose events
  (`ObserveMicrophone`, `ObserveSpeaker`) advance the checkpoints from the threads of
  the duplex runtime.

`MC...` modules instantiate them for TLC. Each component has a `..._proofs` module with
its theorems; those of the gate are the first section of `RoundTrip_proofs`, whose
proofs rest on them.

Operators with a comment that begins "Mutant" (or that name a plausible bug) are
never used by a specification. They are altered forms of the definition below them;
replacing the definition by one of them must make TLC report the property that
`PROJECT.json` pairs with it.

## 3. Runs

| Run | Instance | Shows |
| --- | --- | --- |
| `direction` | 3 utterances, 2 active and 2 terminal at most, every deadline 1 or 2 ticks | `Agreement` of session, watchdog and validator (with the types), `WithinCapacity`, `OutcomeIsFinal` |
| `direction_liveness` | 2 utterances of 2 audio frames, any call into the provider may block | `WatchdogResolves`: no utterance stays watched for ever unless the loop is blocked for ever; `CompletedMeansPlayed`: what is played is what was answered in time and what is reported |
| `duplex_handle` | 2 starts, 1 direction, another gate client, calls that hang | `LeaseFollowsHandle`, `OrphansAreStopping`, `CallsReturn` |
| `duplex_policy` | 1 runtime, 2 directions, overlapping utterances in one of them, 1 restart, calls that hang | `PolicyReopenIsFree`, `BarrierReleases`, `RuntimeEnds` (a runtime that was told to stop, or whose sidecar died, ends unless a direction is stuck) |
| `sidecar` | 2 sessions, 2 attempts, 3 processes, 4 launches | `GroupIsOwned` (with the types, and that a ready supervisor talks to its own child), `SessionsAreCurrent`, `ShutdownLeavesNothing`, `CallsEnd` |
| `scheduler` | 2 sessions, 3 jobs, queue of 1, 4 generations | `JobsHaveHome` (every unfinished job is in a queue or a slot, and a slot's job runs), `AdmissionBound`, `ResultsAreCurrent` (nothing cancelled is delivered, one result for an identity), `ShutdownDrains` |
| `scheduler_liveness` | 1 session, 2 jobs | `EverybodyIsAnswered`: every future resolves, every caller of shutdown leaves |
| `routing` | 2 streams (a browser tab in a call; Zoom or a media player), 2 captures, 1 failing command per call | `ActiveIsJournaled`, `OneRouteAtATime`, `ChannelsStayLinked`, `ReleasedWhenRestored`, `RecoveryEnds` |
| `audio_graph` | 4 module indices, 2 generations, 2 disturbances | `NothingForgotten`, `NoTwins`, `ForeignIsSafe`, `SelfHeals` |
| `control` | 2 concurrent requests, 2 settings, 2 devices, 1 event stream over a channel of 1, 1 fault (a failing call, a device change or a client that gives up) | `StoreIsPutRight`, `ShownIsStopped`, `StreamsCatchUp`, `AudioFollowsStore` |
| `round_trip` | 2 sessions, another gate client, 1 failing step, generation limit 3 | `CompletedIsEarned`, `GateCoversTest`, `ForgottenIsClean`, `EndIsReported`, `LeaseComesBack`; of the gate, `BusyHasOwner` and `ImplementsAdmission` |
| `round_trip_retry` | as above | violated: `SessionIsStoppable` |

Why the bounds are enough. *Direction*: three utterances and room for two reach both
capacities, and let one be cancelled while another streams and a third starts; two
values of each deadline separate "reached" from "passed"; two audio frames allow a
repeated, a skipped and a late one, and a final that names too few. *Duplex*: a second
start is all that can collide with the first; one fault restart distinguishes budget
left from budget used up; two utterances are the least that overlap. *Sidecar*: three
processes are a failed attempt, its successor and the child of a replaced supervisor.
*Scheduler*: with a queue of one, three jobs fill slot and queue and ask for one
place more; four generations open a session and its utterance twice, or one
utterance in each direction. *Routing* (1 085 898 states): two streams are a route and
its successor, or a route and a stranger on the virtual sink; a browser and Zoom have
the two ways to route (move, links); a failure per call, not per behaviour, lets
recoveries fail again and again. *Graph* (336 857 states): four indices are three
endpoints and a foreign module or a twin; two generations are the dead daemon's and
the living one's; two disturbances allow a failure and one more while it is handled.
*Control* (846 052 states): two requests are the least that interleave, and they are a
dropped handler or a failed stop and the request that repairs it; a channel of one event
lags at the second. Two requests that overlap and a third that repairs are the theorem's;
TLC has also been through them once, without the event stream (7.4 million states, too long
for a run that is repeated). *Round trip* (653 841 states): the second session is
what a first one that was not cleaned up would damage.

Symmetry (of utterance, session and caller ids) is used in `direction` and `scheduler`
only, which have no liveness properties. Deadlock is checked in every run whose cfg does not
say otherwise; it is off where the system may stop for good: a direction that has
ended, a runtime whose starts are used up, a daemon that has shut down, a self test
whose sessions are used up.

### Properties with conditions

Some properties say less than one would like, because the code does less. The
conditions are part of what the runs show.

* `WatchdogResolves`, `RuntimeEnds`, `BarrierReleases` and `CallsReturn` except a loop or a
  direction that never comes back from a call without a timeout: `ProviderStreamClient::open`
  (`translation_runtime.rs:1315`), `provider.send` on a full channel (1586, 1742 and the
  sends of captured frames), a write to the playback device. `CallsReturn` still shows that
  every stop returns; the call that may stay is a failed start, whose `join` (592, 597) has
  no timeout either. `LeaseComesBack` excepts a self test inside that start
  (`round_trip_process.rs:335`): it blocks the thread, so that the deadline cannot fire.
* `StoreIsPutRight` speaks of the store after a request that met no other, was heard to its
  end and had its way, and until requests meet again, a handler is dropped in or after its
  call, or a stop fails. What may happen before is part of the model: of two overlapping
  PATCHes, the stop of one may fail between the stop and the start of the other, and the
  store then hides a runtime that runs; a start whose client has gone leaves a runtime that
  the store never shows; a stop that was dropped or failed leaves the store at "running" with
  no runtime, and another stop, which then fails, does not put it right (a start or a PATCH
  does). A runtime that ended by itself stays in the handle and stays shown until the next
  request that drives the translation.
* `ShownIsStopped` says of a translation that the store shows at the shutdown that it is told
  to stop and that none is started after it. It does not say that its thread is gone when the
  graph is: a stop that timed out (`translation_runtime.rs:622`) leaves a thread that has been
  told to stop (`OrphansAreStopping`), and a runtime that the store hides is not stopped at all.
* `ChannelsStayLinked` is checked, and proved, with at most one command that fails in a
  call (`MaxFaults <= 1`), for the streams of which no `pw-link` command timed out after its
  effect. With two failures it is violated: a rollback goes on after a link that it could not
  make again, and unlinks the channel's other end. One timeout after the effect is enough for
  a stream in `late`: when the unlink of the second original channel has happened and is
  reported as failed (`routing.rs:712`), the rollback does not make that link again.
* `OneRouteAtATime` is about streams that the watcher can know of: those that PulseAudio
  reports on the virtual sink, and the active route. The links of a Zoom stream that a daemon
  killed between the links and the journal (`routing.rs:527`, 551) or a failed rollback has
  left are seen by neither, and the next route is mixed with them.
* `EndIsReported` has one exception: a self test whose tokio runtime cannot be built
  (`round_trip_process.rs:223`) ends and nobody calls `progress.fail`. Its session waits for
  speech until it is stopped; what holds is that the handle still has the failed runtime, so
  that the stop is answered and no other test takes its place.
* `GateCoversTest` allows a duplex runtime that would not stop within its deadline
  to outlive the lease; the handle has then recorded the failure.
* `RecoveryEnds` needs a physical microphone, a route that was not made by links (a
  half-undone one cannot be undone again, `pw-link` refuses) and commands that
  eventually succeed.
* `ForeignIsSafe` leaves out a sound server that restarts between the check of a
  module and its unload: no command line tool could close that gap.
* `RuntimeEnds` records a behaviour rather than a wish: when the sidecar dies,
  readiness is already lost when the restart asks for it, so the runtime ends and the
  handle keeps a finished runtime and its lease until somebody stops it.

### Fairness

* `DirectionSession`: time passes, the open and close timeouts fire, and the watchdog's
  interval is polled as long as the loop keeps coming back from its calls (strong fairness
  of `Poll`). Nothing makes a blocked call return. `run_direction` uses a biased select in which
  the interval comes after provider events; a provider that keeps the stream permanently
  ready could starve it. The model assumes that it does not.
* `DuplexRuntime`: threads and tasks are scheduled and their calls return unless the direction
  is stuck; an utterance in progress of a direction that is not stuck gets its terminal event
  (this is `WatchdogResolves` of `DirectionSession`), and the streams of a dead process break.
  Nothing is assumed of hung calls, users, modes, speech or crashes.
* `SidecarSupervisor`: a call that is awaited is polled, and the timeout around the
  probe fires. Processes need not do anything.
* `InferenceScheduler`: the loop runs what is ready, native operations return, and
  the work of a job ends (its number of native operations is bounded).
* `RoutingWatcher`, `AudioGraph`: a call goes on to its end (weak fairness of its
  steps; every command has a timeout), and the loop, which ticks every second, calls
  again and again (strong fairness, since calls by hand and clean-ups of another
  process hold the lock meanwhile). The loop does not refresh while a self test has the gate
  (`main.rs:244`); the test gives it back unless it stays in the start of its duplex runtime
  (`LeaseComesBack`). Nobody has to route, stop or start anything.
* `ControlPlane`: a handler goes on between its awaits, but a call of the runtime's controller
  need not return (`Calling`); the watcher loop runs, since each of its commands is timed; an
  open event stream is read. Nobody has to send a request.
* `RoundTrip`: the thread runs or its deadline fires, except in the start of the duplex
  runtime; the teardown goes on, each of its steps under a deadline. The observer need not see
  anything, no runtime that was abandoned has to end, and nobody has to stop the test.

### Known disagreements

The run `round_trip_retry` shows the one that leaves the program stuck: a stop of the
self test times out and keeps the runtime for a later clean-up, the thread ends
meanwhile, and the next *start* reaps it without ending its session. From then on
every start answers that a test is running and every stop that none is, until the
daemon restarts. The test `stop_timeout_retains_runtime_and_gate_for_retry_cleanup`
(`tests/round_trip_runtime.rs:201`) covers the second stop only.

Five more were met while modelling. The property that states the promise is kept in
the module; to see the counterexample, check it with the safety specification
(`Spec`, for `ControlPlane` `ControlSpec`) on the instance named here.

1. `TimeoutReleasesCapture` (`DirectionSession`; constants of `DirectionLiveness.cfg`):
   when the watchdog gives up an utterance that is still being spoken, the session
   releases it, but the segmenter stays inside it, and its next frame is an error that
   ends the direction. `tests/direction_session.rs:184` is called
   `collecting_timeout_releases_capture_for_the_next_utterance`.
2. `SingleFlight` (`DuplexRuntime`; two runtimes, `OneDirection`, `MaxRestarts = 0`,
   `NoSpeech`): a stop that times out (`translation_runtime.rs:626`) has already
   taken the runtime out of the handle and drops its lease while the thread is alive;
   the next start runs a second one beside it. `OrphansAreStopping` and `RuntimeEnds`
   show that the first has been told to stop and ends unless a direction of it is stuck.
   `tests/translation_runtime.rs:89` is called
   `translation_controller_is_single_flight_and_can_restart_after_stop`.
3. `PolicyWaitsForActivePeer` (`DuplexRuntime`; one runtime, `BothDirections`,
   `MaxRestarts = 0`, `Overlapping`): the barrier has one flag for each direction
   (`translation_runtime.rs:1556`). The end of an older utterance lowers it while a
   newer one is in progress, so a policy reopen of the peer interrupts it. With
   one utterance at a time in each direction it holds. The test at
   `translation_runtime.rs:2172` is called
   `policy_reopen_waits_only_for_an_active_peer`.
4. `HungSidecarIsReplaced` (`DuplexRuntime`; as 3): while a direction
   that closed for a policy reopen waits for its peer, the peer's watchdog gives the
   sidecar up. The pair of exits is classified as a policy reopen
   (`translation_runtime.rs:1894`) and the next generation uses the same process.
   `tests/provider_audio_watchdog.rs:363` is called
   `missing_cancel_final_closes_session_then_missing_close_ack_restarts_sidecar`.
5. `CloudIsShown` (`ControlPlane`; as `ControlPlane.cfg` with `MaxRequests = 3` and
   `MaxFaults = 0`): `set_provider`
   (`runtime_state.rs:378`) changes what the store says without touching the runtime,
   so a runtime of the cloud provider goes on while the store says that no audio
   leaves the machine. `CONTRIBUTING.md:47`: "Cloud providers must require explicit
   opt-in and must show that audio leaves the machine."

Smaller hazards that are seen and not covered by a property: the shutdown does not
wait for the teardown of a self test that has ended (`main.rs:818`); the gate of a
manual route is asked before the mutex is taken (`main.rs:248`); the debug fields of the
store are under a lock of their own (`runtime_state.rs:496`).

## 4. Proofs

Every safety property of a passing run, invariant or action property, is the statement of a
theorem: the run shows it on a small instance, the theorem for every value of the
constants. Each inductive invariant below was first checked by TLC as an invariant
of the component's run. The proofs have one lemma per action, and under it one step for
each conjunct that the action can disturb.

**RoundTrip_proofs, the gate**, for every set of clients and sessions and every
generation limit. The inductive invariant `GateInv` is the types, `OneLease`,
`BusyHasOwner` and `LeaseValid` (a lease that is out names the current operation,
unless the daemon stops). `OneLease` alone is not inductive: acquiring relies on an
idle gate having no lease out, which `LeaseValid` provides. From it follow
`GateTypeCorrect`, `GateExclusive`, `GateNeverOrphaned`, the action property
`GateStopsForGood`, and `GateRefinesAdmission`, the refinement of `AudioAdmission`
(the initial state maps to the initial state; acquire, release and begin stopping map
to `Admit`, `Finish` and `Stop` or to a stutter).

**RoundTrip_proofs, the self test**, for every set of sessions and holders and any number
of failing steps. `RoundTripInv` is `GateInv` with the types, `HandleShape` (the test has
its lease exactly at the steps of its thread that hold it), `ResourceShape` (what exists
before the test has begun and after it has ended), `SessionShape` (thread and observer
are of the same session until it is over), `ProofShape` (only the thread takes a session
past the reinjection, with the proof recorded and the peer gone) and `HeardShape` (what
the observer has heard by its checkpoint). `CompletedIsEarned` needs the last three
together, since the thread and the observer advance one session from two threads.
Results: `GateCovers`, `ForgettingIsClean`, `EndsAreReported`, `CompletionIsEarned`,
`TestNeverOrphansGate`.

**DirectionSession_proofs**, for any utterances, deadlines, capacities and provider.
`DirectionInv` is the types, `SameUtterances` (the agreement of session, watchdog and
validator, also while the session closes, when `Agreement` says less), `Bounded` and
`PlayShape` (an utterance begins with nothing played and is over once; while the direction
runs, what the validator counts as playable has been played). `WithinCapacity` follows for
all three maps because only the validator checks the limits and the others agree with it.
Results: `SessionAgrees`, `CapacityIsKept`, `CompletedWasPlayed`, and `OutcomesAreFinal`
for the action property `OutcomeIsFinal`.

**DuplexRuntime_proofs**, for every set of threads, directions and holders and every
budget. `NextSplits` divides a step into the calls of the handle and the steps of one
thread. The type lemmas go action by action. `DuplexInv` adds `LeaseFollowsHandle`,
`Ownership` (a call has a callee, excludes an active runtime, and a call that waits
for the end of a thread has told it to stop) and `OrphansAreStopping`, which needs
`Ownership` when a timeout or a join lets a thread go. `InnerLeavesHandle` shows that
threads and directions touch neither the handle nor a stop channel.
A second invariant, `GenerationInv`, is about the ends of the directions: outside of a
generation no task runs (`TasksAreIn`), a direction that closes or has ended was told to
by the stop channel, told to by its peer, follows a policy or is in trouble
(`EndsHaveReasons`), and the first to end was not told to by a peer (`FirstHasReason`).
Hence a generation that ends without a stop and without trouble is a policy reopen for
`classify_generation_restart` (`CalmEndIsReopen`), which is what the budget relies on.
Results: `DuplexTypeCorrect` (which contains that the restart budget is kept),
`DuplexLease`, `DuplexOrphans`, and `DuplexReopenIsFree` for the action property
`PolicyReopenIsFree`.

**SidecarSupervisor_proofs**, for every set of sessions and any number of attempts,
launches and processes. `SupervisorInv` is the types, `CallShape` and `HandleShape` (where
each call may wait, and which handles it then has), `Numbered` and `Budget` (the bound on
spawned processes is never what refuses a retry), `Generations`, `OthersAreOld` (a group
that exists and is not held was killed and is of an older generation, so it cannot answer
the probe of this one), `ReadyShape` and `SessionsAreCurrent`. `GroupIsOwned` is not
inductive without `OthersAreOld`: a replaced supervisor's process may still be alive.
Results: `GroupsAreOwned`, `SessionsCurrent`, and `ShutdownIsComplete` for the action
property `ShutdownLeavesNothing`.

**InferenceScheduler_proofs**, for every set of sessions, utterances and callers, any
limit of the queues and any number of jobs and generations. `SchedulerInv` is the types,
one shape each for queues, active slots, futures, the executor's queue, generations,
results and the cleanup, with `AdmissionBound` and `ResultsAreCurrent`. That an utterance
delivers once rests on `ResultShape` (a job that has delivered has terminalized its
utterance) and `GenerationShape` (a generation is never allocated again); that a shutdown
leaves nothing, on what `CleanupShape` has established by each await. Results:
`JobsKeepTheirHome`, `AdmissionIsBounded`, `ResultsStayCurrent`, `ShutdownLeavesIdle`.

**AudioGraph_proofs**, for every set of module indices and generations and any number
of disturbances. `NothingForgotten` is not inductive: that a clean-up removes the
journal is right only because its copy of the journal names every module that is left.
`GraphInv` therefore adds the types, `Shape` (what a call has established by its
label: nothing of ours is loaded when a new journal is about to be written),
`SameGeneration` (the copy has the journal's generation, except after the journal's
removal), `CopyIsComplete` (outside a rollback the copy names every module of ours but
the one just unloaded) and `CheckedIsOurs` (the module about to be unloaded is ours or
gone, unless the server restarted). `ReconcileIsComplete` is where `NoTwins` and
`NothingForgotten` together make `reconcile_ownership` find everything; `LoadKeeps` is
where completeness makes `NoTwins` hold: a role that the copy misses has no module.
That a load which timed out breaks completeness is harmless because the call
then rolls back, and a rollback never removes the journal. Results: `GraphRemembers`,
`GraphHasNoTwins`, and `GraphSparesOthers` for the action property `ForeignIsSafe`.

**RoutingWatcher_proofs**, for every set of streams, captures and kinds, in three layers.

* `RouteIsJournaled` states `ActiveIsJournaled`, which alone is not
  inductive: that the journal may be cleared, or overwritten by a new route, depends on
  where the call is. `RouteInv` adds `Agrees`: at the labels of `Unrouted` no route is
  active, a kept route is the active one, and captures are moved only for a route the
  journal has. `RunLinksEnds` deals with the `pw-link` scripts and their rollbacks in all
  three actions that run one. A daemon that is down has no call, so the one that starts
  may take the journal's route for the active one.
* `PlaceInv` adds the world: the types of streams and links, that a script in progress is
  a script of the code and what it has left to do (`ScriptShape`), which streams may be on
  the virtual sink at each label (`MixShape`) and what a release has found
  (`ReleaseShape`). `OnlyRoutingAdds` shows that a step which adds a stream to those heard
  there moves or links the call's own stream, and by `MixShape` no other that is known is
  there at that label. It gives `RoutesComeOneAtATime` (the action property
  `OneRouteAtATime`) and `RouteIsReleasedWhenRestored` (`ReleasedWhenRestored`), for any
  number of failing commands, timeouts after the effect included.
* `ChannelInv` follows the two `pw-link` scripts and every rollback command by command: at
  each one both channels of the stream are linked to the original sink or to the virtual
  one. It gives `ChannelsNeverLost`: if `MaxFaults <= 1`, `ChannelsStayLinked` holds, for the
  streams that are not in `late`. Hypothesis and exception are the property's own conditions
  (section 3): one command per call that fails without an effect is what the code's rollback
  is written for.

**ControlPlane_proofs**, for any number of requests, faults, devices and event streams.
`ControlInv` is the types, `RequestShape` (the steps a request of each kind goes through,
what it carries there, and that a dropped handler has only a blocking call left),
`RefreshShape` (who waits for a refresh is still there when it ends), `Halting` (the gate is
closed before the shutdown looks at the store, and what it saw there is stopped) and, while
the daemon is up, `Knowledge`. That is where the requests are held against each other. As
long as none in flight has met another, one at a time drives the translation (`Alone`) and at
each step it may rely on what it has read or done (`Knows`: the settings are still the
store's, `was_running` still is true, nothing runs when it clears the flag). While all is
`calm`, no dropped handler has a call of the controller left, and the store tells the `Truth`
but for a request that still `Owes` the last step. `calm` is lost when requests meet, a
handler is dropped in or after its call or a stop fails, and won back only by a request that
`Knows`; so the two halves need each other. `DriverKeeps` reduces a step of the driving
request to that request (`OthersStandBy`), `HarmlessKeeps` covers every step that leaves the
runtime alone. Results: `ControlTypeCorrect` (with the capacity of the event streams),
`StoreComesRight` (`StoreIsPutRight`) and `ShownStaysStopped` (`ShownIsStopped`).

The assumptions are the named `ASSUME`s of the component modules, which TLC
evaluates in every run: naturals where the code has unsigned constants, distinct
names for "no runtime" and "bypass", directions that are none of the marks of `first`,
0 neither an index nor a generation.

Model-checked only: the liveness properties (`WatchdogResolves`, `CallsReturn`,
`BarrierReleases`, `RuntimeEnds`, `CallsEnd`, `EverybodyIsAnswered`, `RecoveryEnds`,
`SelfHeals`, `StreamsCatchUp`, `AudioFollowsStore`, `LeaseComesBack`). Liveness under
fairness, induction over data and recursive operators are outside of what
the proof system can do here.

## 5. What is not modelled

`PROJECT.json` lists every component with its status. Left out for good: generated
code, benchmarks, model inference and downloads, the desktop UI (but for its
request timeouts, which are `Disconnect`), sample arithmetic,
launch validation (a pure check of one snapshot), the start-up of the daemon (a straight
line that ends in an exit code), the secure state directory, the IPC client, the device
watcher (a comparison of two snapshots) and the echo cancellation module (loaded at
the start, unloaded at the end, with nothing to recover).

In the modelled components: PCM contents, texts, languages and voices, logging, metrics,
gRPC plumbing; the latency policy is an input (a mode may change at any time); errors of
`kill` and `waitpid` other than a missing process; the matching of stream properties
(an application is a kind); which of several physical devices a stream came from
(`RoutingWatcher` has one sink and one source, and whether they are unambiguous); the
authentication and the limits of the API; samples, digests and latencies of the self
test.

## 6. Plan

Done: the gate, the directions, the runtime, the sidecar and the scheduler, then the
route, the graph, the control plane and the self test. What remains, most important first:

1. **ProviderLink** and **TtsBridge** (`grpc_server.py`, `provider_engine.py`,
   `local_provider.py`, `SchedulerContext`): the provider's automaton as a peer that
   `DirectionSession` accepts; the bounded bridge between the producer thread and the
   loop.
2. **LatencyPolicy** (`latency.rs`): windows, breaches, hysteresis and recovery, as the
   source of `DuplexRuntime`'s mode changes.
3. **StaleSocket** (the quarantine with its inode checks), **DebugCapture** (consent,
   expiry, deletion), **SpeechSegmenter** with the bounded queues.
4. Proofs: what the liveness properties rest on, as safety theorems (that a call which waits
   can always be ended by the step its fairness is about); the conditions under which the
   promises of section 3 do hold, such as `PolicyWaitsForActivePeer` with one utterance in
   progress at a time.
