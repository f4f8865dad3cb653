---------------------------- MODULE ControlPlane ----------------------------
(***************************************************************************)
(* The control plane of the daemon: the HTTP handlers (api.rs), the store  *)
(* they change (RuntimeStore, runtime_state.rs) with its event stream, the *)
(* watcher loop that keeps loopbacks and volumes in line with the store    *)
(* and the order of the shutdown (main.rs).                                *)
(*                                                                         *)
(* Handlers run concurrently.  A handler reads the store, awaits a blocking*)
(* call and writes the store again; other handlers run between any two of  *)
(* these steps.  A client that gives up drops its handler at an await: the *)
(* blocking call goes on, what the handler would have done after it never  *)
(* happens.  The translation runtime is seen through its controller:       *)
(* DuplexRuntimeHandle::start and stop hold its mutex to their end, so each*)
(* is one step, taken where start has its lease and stop has emptied the   *)
(* handle.  A runtime that was taken out has been told to stop; when the   *)
(* stop timed out its thread may live on (the orphans of DuplexRuntime).   *)
(***************************************************************************)
EXTENDS Naturals, FiniteSets

CONSTANTS
    Configs,        \* settings of the directions and voices
    Devices,        \* physical devices that may be selected
    NoDevice,       \* no device is known
    Subscribers,    \* event streams (the SSE permits)
    EventCapacity,  \* capacity of the broadcast channel
    MaxRequests,    \* requests, numbered in the order they arrive, bounds the model
    MaxFaults       \* failing calls, device changes and clients that give up, bounds the model

ASSUME ControlAssumption ==
    /\ EventCapacity \in Nat \ {0} /\ MaxRequests \in Nat /\ MaxFaults \in Nat
    /\ Configs # {} /\ Devices # {} /\ NoDevice \notin Devices

Providers == {"local", "openai"}
Mixes == {0, 100}                  \* original_percent: muted or not
NoRuntime == [provider |-> "none"]
Clients == 1..MaxRequests          \* one task per request
Kinds == {"start", "stop", "direction", "provider", "mix"}

VARIABLES
    store,      \* the fields of RuntimeSnapshot that the handlers decide on
    runtime,    \* DuplexRuntimeHandle.active: the provider and settings it was started with;
                \* it may have ended by itself, which neither the handle nor the store learns
    stopping,   \* the gate has begun to stop: no more production lease
    req,        \* Clients -> the request in flight: its step and its locals
    refresh,    \* the refresh under the LifecycleProtected mutex
    ticker,     \* the watcher loop
    loops,      \* the original loopback modules, by the device they play to
    applied,    \* the original's volume in the sound server
    stream,     \* Subscribers -> events waiting, a lag, and whether the last snapshot
                \* sent is the current one
    down,       \* the shutdown: the step it has reached
    requests,   \* the number of requests that have arrived
    faults,     \* the number of faults
    overlapped, \* history: of the requests in flight that drive the runtime, one met another
    calm,       \* history: since requests met, a handler was dropped or a stop failed, a
                \* request that met no other has had its way and was heard to its end
    shown       \* history: the store showed a translation when the shutdown looked

controlVars == <<store, runtime, stopping, req, refresh, ticker, loops, applied, stream,
                 down, requests, faults, overlapped, calm, shown>>
history == <<overlapped, calm, shown>>
audio == <<refresh, ticker, loops, applied>>

IdleRequest == [pc |-> "idle", kind |-> "none", snap |-> NoRuntime, was |-> FALSE,
                gone |-> FALSE]
IdleRefresh == [pc |-> "idle", by |-> 0, want |-> {}]
IdleTicker == [pc |-> "idle", volume |-> 0]
ClosedStream == [waiting |-> 0, lagged |-> FALSE, resync |-> FALSE, current |-> TRUE]

Closed == down \in {"draining", "cleaned"}

\* LifecycleProtected has not been stopped.
Active == ~Closed

----------------------------------------------------------------------------
(* The store.  A write and the publication of the event that follows it are   *)
(* one step: events carry no data, so a stream that reads in between only     *)
(* reads the new state twice.                                                 *)

\* EventBus::publish: a full channel drops its oldest event, the receiver lags.
Notified(x) ==
    IF Closed THEN stream[x]
    ELSE IF stream[x].waiting < EventCapacity
         THEN [stream[x] EXCEPT !.waiting = @ + 1, !.current = FALSE]
         ELSE [stream[x] EXCEPT !.lagged = TRUE, !.current = FALSE]

\* Mutant: a change of the devices is not published.
ChangeOfDeviceUnpublished(s) ==
    /\ store' = s
    /\ stream' = [x \in Subscribers |->
                     IF s.device = store.device THEN Notified(x)
                     ELSE [stream[x] EXCEPT !.current = Closed]]

Change(s) ==
    /\ store' = s
    /\ stream' = [x \in Subscribers |-> Notified(x)]

NoChange == UNCHANGED <<store, stream>>

\* The generator behind GET /v1/events/stream: a lag is reported, then a snapshot is sent.
Send(x) ==
    /\ \/ /\ stream[x].resync
          /\ stream' = [stream EXCEPT ![x].resync = FALSE, ![x].current = TRUE]
       \/ /\ ~stream[x].resync /\ stream[x].lagged
          /\ stream' = [stream EXCEPT ![x].lagged = FALSE, ![x].resync = TRUE]
       \/ /\ ~stream[x].resync /\ ~stream[x].lagged /\ stream[x].waiting > 0
          /\ stream' = [stream EXCEPT ![x].waiting = @ - 1, ![x].current = TRUE]
    /\ UNCHANGED <<store, runtime, stopping, req, audio, down, requests, faults, history>>

----------------------------------------------------------------------------
(* Requests.                                                               *)

Pc(c, label) == req[c].pc = label
Go(c, label) == req' = [req EXCEPT ![c].pc = label]
Done(c) == req' = [req EXCEPT ![c] = IdleRequest]
Fault == faults < MaxFaults /\ faults' = faults + 1
NoFault == UNCHANGED faults

\* The requests that drive the runtime.  One whose client has gone is in flight until its
\* blocking call returns.
Driving == {"start", "stop", "direction"}
Translating(c) == req[c].kind \in Driving
Meets == \E c \in Clients : Translating(c)

\* What follows an await: nothing when the handler was dropped.
Resume(c, label) == IF req[c].gone THEN Done(c) ELSE Go(c, label)

\* The request had its way: it alone has driven the runtime since the last one was answered.
HadItsWay(c) == calm' = (calm \/ (~overlapped /\ ~req[c].gone))
SameCalm == UNCHANGED calm
Seen == UNCHANGED <<overlapped, shown>>

FirstStep == [start |-> "refresh", stop |-> "stop", direction |-> "was", provider |-> "provider",
              mix |-> "mix"]

Arrive(c, kind) ==
    /\ c = requests + 1 /\ ~Closed
    /\ req' = [req EXCEPT ![c] = [IdleRequest EXCEPT !.kind = kind, !.pc = FirstStep[kind]]]
    /\ requests' = c
    /\ IF kind \in Driving THEN overlapped' = Meets /\ calm' = (calm /\ ~Meets)
       ELSE UNCHANGED overlapped /\ SameCalm
    /\ NoChange
    /\ UNCHANGED <<runtime, stopping, audio, down, faults, shown>>

\* The client closes its connection, or its own timeout ends the request.  Between two awaits
\* a handler runs to the end.
Disconnect(c) ==
    /\ Translating(c) /\ ~req[c].gone
    /\ \/ /\ req[c].pc \in {"refresh", "refreshing", "start", "stop", "reconfigureStop",
                            "reconfigureStart"}
          /\ req' = [req EXCEPT ![c].gone = TRUE]
       \/ /\ \/ Pc(c, "snapshot") /\ req[c].kind = "start"
             \/ req[c].pc \in {"setRunning", "clearRunning"}
          /\ Done(c)
    /\ calm' = (calm /\ req[c].pc \in {"refresh", "refreshing", "snapshot"})
    /\ NoChange /\ Fault /\ Seen
    /\ UNCHANGED <<runtime, stopping, audio, down, requests>>

\* start_translation and stop_translation refresh the audio state before or after.
RequestRefresh(c) ==
    /\ Pc(c, "refresh") /\ refresh.pc = "idle"
    /\ IF Active
       THEN refresh' = [IdleRefresh EXCEPT !.pc = "read", !.by = c] /\ Go(c, "refreshing")
       ELSE UNCHANGED refresh
            /\ IF req[c].kind = "start" THEN Resume(c, "snapshot") ELSE Done(c)
    /\ NoChange
    /\ UNCHANGED <<runtime, stopping, ticker, loops, applied, down, requests, faults, history>>

\* What start and reconfigure hand to the controller.
Snapshot(c) ==
    /\ Pc(c, "snapshot")
    /\ req' = [req EXCEPT ![c].snap = [provider |-> store.provider, cfg |-> store.cfg],
                          ![c].pc = IF @ = "snapshot" /\ req[c].kind = "start" THEN "start"
                                    ELSE "reconfigureStop"]
    /\ NoChange
    /\ UNCHANGED <<runtime, stopping, audio, down, requests, faults, history>>

\* DuplexRuntimeHandle::start.
StartRuntime(c, done, failed) ==
    \/ /\ runtime = NoRuntime /\ ~stopping
       /\ runtime' = req[c].snap /\ done /\ NoFault
    \/ /\ runtime # NoRuntime \/ stopping
       /\ UNCHANGED runtime /\ failed /\ NoFault
    \/ Fault /\ UNCHANGED runtime /\ failed

StartCall(c) ==
    /\ Pc(c, "start")
    /\ StartRuntime(c, Resume(c, "setRunning"), Done(c))
    /\ NoChange
    /\ UNCHANGED <<stopping, audio, down, requests, history>>

\* DuplexRuntimeHandle::stop: the runtime is taken out also when stopping it fails, because
\* it does not end in time or because it has ended with an error before.
StopRuntime(done, failed) ==
    /\ NoFault
    /\ \/ runtime # NoRuntime /\ runtime' = NoRuntime /\ (done \/ failed)
       \/ runtime = NoRuntime /\ UNCHANGED runtime /\ failed

StopCall(c) ==
    /\ Pc(c, "stop")
    /\ StopRuntime(Resume(c, "clearRunning") /\ SameCalm,
                   Done(c) /\ calm' = (calm /\ runtime = NoRuntime))
    /\ NoChange /\ Seen
    /\ UNCHANGED <<stopping, audio, down, requests>>

\* set_translation_running after the await.
SetRunning(c) ==
    /\ Pc(c, "setRunning")
    /\ Change([store EXCEPT !.running = TRUE])
    /\ Done(c) /\ HadItsWay(c) /\ Seen
    /\ UNCHANGED <<runtime, stopping, audio, down, requests, faults>>

\* Mutant: a reconfiguration that failed leaves translation_running as it was.
ClearRunningOfStopOnly(c) ==
    /\ Pc(c, "clearRunning")
    /\ IF req[c].kind = "stop" THEN Change([store EXCEPT !.running = FALSE]) /\ Go(c, "refresh")
       ELSE NoChange /\ Done(c)
    /\ HadItsWay(c) /\ Seen
    /\ UNCHANGED <<runtime, stopping, audio, down, requests, faults>>

ClearRunning(c) ==
    /\ Pc(c, "clearRunning")
    /\ Change([store EXCEPT !.running = FALSE])
    /\ IF req[c].kind = "stop" THEN Go(c, "refresh") ELSE Done(c)
    /\ HadItsWay(c) /\ Seen
    /\ UNCHANGED <<runtime, stopping, audio, down, requests, faults>>

\* patch_direction and patch_voice_profile: was_running is read first, the setting written,
\* then a running translation is reconfigured: stopped and started again.
ReadRunning(c) ==
    /\ Pc(c, "was")
    /\ req' = [req EXCEPT ![c].was = store.running, ![c].pc = "direction"]
    /\ NoChange
    /\ UNCHANGED <<runtime, stopping, audio, down, requests, faults, history>>

set_direction(c, cfg) ==
    /\ Pc(c, "direction")
    /\ Change([store EXCEPT !.cfg = cfg])
    /\ IF req[c].was THEN Go(c, "snapshot") ELSE Done(c)
    /\ UNCHANGED <<runtime, stopping, audio, down, requests, faults, history>>

ReconfigureStop(c) ==
    /\ Pc(c, "reconfigureStop")
    /\ StopRuntime(Go(c, "reconfigureStart"), Resume(c, "clearRunning"))
    /\ NoChange
    /\ UNCHANGED <<stopping, audio, down, requests, history>>

ReconfigureStart(c) ==
    /\ Pc(c, "reconfigureStart")
    /\ StartRuntime(c, Done(c) /\ HadItsWay(c), Resume(c, "clearRunning") /\ SameCalm)
    /\ NoChange /\ Seen
    /\ UNCHANGED <<stopping, audio, down, requests>>

\* patch_provider: the running translation is left as it is.
set_provider(c, p, cloud_opt_in) ==
    /\ Pc(c, "provider")
    /\ p = "openai" => cloud_opt_in
    /\ Change([store EXCEPT !.provider = p, !.audio_leaves_machine = (p = "openai")])
    /\ Done(c)
    /\ UNCHANGED <<runtime, stopping, audio, down, requests, faults, history>>

\* An unequal or partial language pair, another language's voice, no consent, a volume over 100.
Reject(c) ==
    /\ req[c].pc \in {"direction", "provider", "mix"}
    /\ Done(c)
    /\ NoChange
    /\ UNCHANGED <<runtime, stopping, audio, down, requests, faults, history>>

\* PulseAudioMix::apply: the first command that fails, or times out after its effect, ends it.
SetVolume(v) == (applied' = v /\ NoFault) \/ (applied' \in {applied, v} /\ Fault)

\* patch_audio_mix: the store first, then the sound server.
set_audio_mix(c, m) ==
    /\ Pc(c, "mix")
    /\ Change([store EXCEPT !.mix = m])
    /\ req' = [req EXCEPT ![c].pc = "apply", ![c].snap = [provider |-> "none", volume |-> m]]
    /\ UNCHANGED <<runtime, stopping, audio, down, requests, faults, history>>

ApplyMix(c) ==
    /\ Pc(c, "apply")
    /\ SetVolume(req[c].snap.volume)
    /\ Done(c)
    /\ NoChange
    /\ UNCHANGED <<runtime, stopping, refresh, ticker, loops, down, requests, history>>

Handle(c) ==
    \/ RequestRefresh(c) \/ Snapshot(c) \/ StartCall(c) \/ StopCall(c)
    \/ SetRunning(c) \/ ClearRunning(c) \/ ReadRunning(c)
    \/ (\E cfg \in Configs : set_direction(c, cfg))
    \/ ReconfigureStop(c) \/ ReconfigureStart(c)
    \/ (\E p \in Providers, consent \in BOOLEAN : set_provider(c, p, consent)) \/ Reject(c)
    \/ (\E m \in Mixes : set_audio_mix(c, m)) \/ ApplyMix(c)

----------------------------------------------------------------------------
(* The watcher loop.                                                       *)

effective_audio_mix == IF store.running THEN store.mix ELSE 100

\* original_loopback_requests: the original is played to the selected device unless a
\* running translation has muted it.
original_loopback_requests ==
    IF ~store.running \/ store.mix > 0 THEN {store.device} \ {NoDevice} ELSE {}

RefreshFinished ==
    /\ refresh' = IdleRefresh
    /\ IF refresh.by \in Clients
       THEN /\ req' = [req EXCEPT ![refresh.by] =
                          IF @.kind = "start" /\ ~@.gone THEN [@ EXCEPT !.pc = "snapshot"]
                          ELSE IdleRequest]
            /\ UNCHANGED ticker
       ELSE ticker' = [ticker EXCEPT !.pc = IF @ = "refreshing" THEN "apply" ELSE @] /\ UNCHANGED req

\* refresh_devices: what was found goes into the store, a failed discovery takes it out.
ReadDevices(d) ==
    /\ refresh.pc = "read"
    /\ IF d = store.device THEN NoChange /\ NoFault
       ELSE Change([store EXCEPT !.device = d]) /\ Fault
    /\ refresh' = [refresh EXCEPT !.pc = "requests"]
    /\ UNCHANGED <<runtime, stopping, req, ticker, loops, applied, down, requests, history>>

ReadRequests ==
    /\ refresh.pc = "requests"
    /\ refresh' = [refresh EXCEPT !.pc = "ensure", !.want = original_loopback_requests]
    /\ NoChange
    /\ UNCHANGED <<runtime, stopping, req, ticker, loops, applied, down, requests, faults, history>>

\* Mutant: loopbacks nobody requests any more are kept.
EnsureKeepingStale ==
    /\ refresh.pc = "ensure"
    /\ loops' = loops \cup refresh.want /\ RefreshFinished /\ NoFault
    /\ NoChange
    /\ UNCHANGED <<runtime, stopping, applied, down, requests, history>>

\* PulseOriginalLoopbacks::ensure: the stale modules one by one, then the missing ones; the
\* first command that fails, or times out after its effect, ends it.
AfterCommand ==
    IF loops \subseteq refresh.want THEN {loops \cup {d} : d \in refresh.want \ loops}
    ELSE {loops \ {d} : d \in loops \ refresh.want}

EnsureLoopbacks ==
    /\ refresh.pc = "ensure"
    /\ \/ loops' \in AfterCommand /\ NoFault /\ UNCHANGED <<req, refresh, ticker>>
       \/ loops = refresh.want /\ UNCHANGED loops /\ NoFault /\ RefreshFinished
       \/ loops # refresh.want /\ loops' \in AfterCommand \cup {loops} /\ Fault /\ RefreshFinished
    /\ NoChange
    /\ UNCHANGED <<runtime, stopping, applied, down, requests, history>>

\* One tick: the volumes are taken from the store before the refresh and applied after it.
Tick ==
    /\ ticker.pc = "idle" /\ down = "up"
    /\ ticker' = [pc |-> "wait", volume |-> effective_audio_mix]
    /\ NoChange
    /\ UNCHANGED <<runtime, stopping, req, refresh, loops, applied, down, requests, faults, history>>

TickRefresh ==
    /\ ticker.pc = "wait" /\ refresh.pc = "idle"
    /\ IF Active
       THEN /\ refresh' = [IdleRefresh EXCEPT !.pc = "read"]
            /\ ticker' = [ticker EXCEPT !.pc = "refreshing"]
       ELSE UNCHANGED refresh /\ ticker' = [ticker EXCEPT !.pc = "apply"]
    /\ NoChange
    /\ UNCHANGED <<runtime, stopping, req, loops, applied, down, requests, faults, history>>

TickApply ==
    /\ ticker.pc = "apply"
    /\ SetVolume(ticker.volume)
    /\ ticker' = IdleTicker
    /\ NoChange
    /\ UNCHANGED <<runtime, stopping, req, refresh, loops, down, requests, history>>

Watcher ==
    \/ Tick \/ TickRefresh \/ TickApply
    \/ (\E d \in Devices \cup {NoDevice} : ReadDevices(d)) \/ ReadRequests \/ EnsureLoopbacks

----------------------------------------------------------------------------
(* The shutdown, in the order of main().                                   *)

Shutdown(from, to) == down = from /\ down' = to

\* Mutant: the gate still admits a start while the translation is stopped.
BeginStoppingWithGateOpen ==
    /\ Shutdown("up", "stopping")
    /\ NoChange
    /\ UNCHANGED <<runtime, stopping, req, audio, requests, faults, history>>

\* begin_stopping; the loop is aborted, its call in a blocking thread goes on.
BeginStopping ==
    /\ Shutdown("up", "stopping")
    /\ stopping' = TRUE
    /\ NoChange
    /\ UNCHANGED <<runtime, req, audio, requests, faults, history>>

\* A translation that the store says is running is stopped.
StopTranslation ==
    /\ Shutdown("stopping", "stopped")
    /\ shown' = store.running
    /\ IF store.running THEN StopRuntime(TRUE, TRUE)
       ELSE UNCHANGED runtime /\ NoFault
    /\ NoChange
    /\ UNCHANGED <<stopping, req, audio, requests, overlapped, calm>>

StopRunning ==
    /\ Shutdown("stopped", "cleared")
    /\ Change([store EXCEPT !.running = FALSE])
    /\ UNCHANGED <<runtime, stopping, req, audio, requests, faults, history>>

\* The routes are restored under the mutex, after which nothing is refreshed any more, and
\* shutdown_events ends the streams.
CloseEvents ==
    /\ Shutdown("cleared", "draining") /\ refresh.pc = "idle"
    /\ stream' = [x \in Subscribers |-> ClosedStream]
    /\ UNCHANGED <<store, runtime, stopping, req, audio, requests, faults, history>>

\* The server drains for five seconds, then cleanup_graph: requests that are still in flight,
\* and their blocking calls, are not waited for.
CleanupGraph ==
    /\ Shutdown("draining", "cleaned")
    /\ (loops' = {} /\ NoFault) \/ (Fault /\ loops' \in SUBSET loops)
    /\ NoChange
    /\ UNCHANGED <<runtime, stopping, req, refresh, ticker, applied, requests, history>>

Terminate == BeginStopping \/ StopTranslation \/ StopRunning \/ CloseEvents \/ CleanupGraph

----------------------------------------------------------------------------

ControlInit ==
    /\ store = [running |-> FALSE, provider |-> "local", audio_leaves_machine |-> FALSE,
                cfg |-> CHOOSE cfg \in Configs : TRUE, mix |-> 100,
                device |-> CHOOSE d \in Devices : TRUE]
    /\ runtime = NoRuntime /\ stopping = FALSE
    /\ req = [c \in Clients |-> IdleRequest]
    /\ refresh = IdleRefresh /\ ticker = IdleTicker
    /\ loops = {} /\ applied = 0
    /\ stream = [x \in Subscribers |->
                    [waiting |-> 0, lagged |-> FALSE, resync |-> TRUE, current |-> FALSE]]
    /\ down = "up" /\ requests = 0 /\ faults = 0
    /\ overlapped = FALSE /\ calm = TRUE /\ shown = FALSE

ControlNext ==
    \/ \E c \in Clients, kind \in Kinds : Arrive(c, kind)
    \/ \E c \in Clients : Handle(c) \/ Disconnect(c)
    \/ Watcher \/ (\E x \in Subscribers : Send(x))
    \/ Terminate

ControlSpec == ControlInit /\ [][ControlNext]_controlVars

\* start and stop of the controller have no bound of their own (start joins its thread).
Calling(c) == req[c].pc \in {"start", "stop", "reconfigureStop", "reconfigureStart"}

\* Handlers between their awaits, the loop's blocking task, whose commands are timed, and the
\* streams go on; a call of the controller need not return, and nobody has to send a request
\* or to stop the daemon.
ControlFairSpec ==
    /\ ControlSpec
    /\ \A c \in Clients : WF_controlVars(~Calling(c) /\ Handle(c))
    /\ WF_controlVars(Watcher)
    /\ \A x \in Subscribers : WF_controlVars(Send(x))

----------------------------------------------------------------------------
(* Properties.                                                             *)

Settled == down = "up" /\ \A c \in Clients : Pc(c, "idle")

\* However far requests that overlap, dropped handlers and failed stops have parted the store
\* and the runtime, one request that meets no other, is heard to its end and has its way
\* brings them together: translation_running is whether the handle has a runtime, and that
\* runtime has the settings the store shows.  It stays so through every request, refused,
\* failed or dropped before it acted, until requests meet again, a handler is dropped in or
\* after its call or a stop fails.  (A runtime that ended by itself stays in the handle and
\* is still shown.)
StoreIsPutRight ==
    Settled /\ calm =>
        /\ store.running = (runtime # NoRuntime)
        /\ runtime # NoRuntime => runtime.cfg = store.cfg

\* A translation that the store shows when the shutdown looks is told to stop, and no request
\* in flight, nor its call in a blocking thread, starts another one on the graph that is then
\* taken down.
ShownIsStopped == shown => runtime = NoRuntime

\* Every event stream that is open comes to show the current state, also after a lag.
StreamsCatchUp == \A x \in Subscribers : []<>stream[x].current

\* The sound server comes to follow the store, although the loop applies volumes it read
\* before its refresh and races the handlers: the loopback and the volume are what the store
\* asks for whenever nothing has changed for long enough.
AudioFollowsStore ==
    <>[](down = "up") =>
        <>[](loops = original_loopback_requests /\ applied = effective_audio_mix)

\* A cloud provider that runs is shown to take the audio off the machine.
CloudIsShown ==
    runtime # NoRuntime /\ runtime.provider = "openai" => store.audio_leaves_machine
====
