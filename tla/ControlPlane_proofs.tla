------------------------ MODULE ControlPlane_proofs ------------------------
(***************************************************************************)
(* Theorems about ControlPlane, for every number of requests, faults,      *)
(* streams and devices: whatever has parted the store and the runtime, one *)
(* request that meets no other and is heard to its end puts the store      *)
(* right, and a translation that the store shows at the shutdown is told   *)
(* to stop and does not come back.                                         *)
(***************************************************************************)
EXTENDS ControlPlane, TLAPS

\* What a request carries from one of its steps to the next.
Settings == [provider : Providers, cfg : Configs]
Volumes == [provider : {"none"}, volume : Mixes]
Steps == {"idle", "refresh", "refreshing", "snapshot", "start", "setRunning", "stop",
          "clearRunning", "was", "direction", "reconfigureStop", "reconfigureStart", "provider",
          "mix", "apply"}
Requests == [pc : Steps, kind : Kinds \cup {"none"}, snap : {NoRuntime} \cup Settings \cup Volumes,
             was : BOOLEAN, gone : BOOLEAN]
Stores == [running : BOOLEAN, provider : Providers, audio_leaves_machine : BOOLEAN, cfg : Configs,
           mix : Mixes, device : Devices \cup {NoDevice}]
Streams == [waiting : 0..EventCapacity, lagged : BOOLEAN, resync : BOOLEAN, current : BOOLEAN]

\* Types; in particular no stream has more events waiting than the channel holds.
ControlTypeOK ==
  /\ store \in Stores
  /\ runtime \in {NoRuntime} \cup Settings
  /\ stopping \in BOOLEAN
  /\ req \in [Clients -> Requests]
  /\ refresh \in [pc : {"idle", "read", "requests", "ensure"}, by : 0..MaxRequests,
                  want : SUBSET Devices]
  /\ ticker \in [pc : {"idle", "wait", "refreshing", "apply"}, volume : {0, 100}]
  /\ loops \subseteq Devices /\ applied \in {0, 100}
  /\ stream \in [Subscribers -> Streams]
  /\ down \in {"up", "stopping", "stopped", "cleared", "draining", "cleaned"}
  /\ requests \in 0..MaxRequests /\ faults \in 0..MaxFaults
  /\ overlapped \in BOOLEAN /\ calm \in BOOLEAN /\ shown \in BOOLEAN

\* The steps a request of each kind goes through, and what it carries there; a handler that
\* was dropped has only its blocking call left.
RequestShape(c) ==
  /\ \/ req[c].kind = "none" /\ req[c].pc = "idle"
     \/ /\ req[c].kind = "start"
        /\ req[c].pc \in {"refresh", "refreshing", "snapshot", "start", "setRunning"}
     \/ /\ req[c].kind = "stop"
        /\ req[c].pc \in {"stop", "clearRunning", "refresh", "refreshing"}
     \/ /\ req[c].kind = "direction"
        /\ req[c].pc \in {"was", "direction", "snapshot", "reconfigureStop", "reconfigureStart",
                          "clearRunning"}
     \/ req[c].kind = "provider" /\ req[c].pc = "provider"
     \/ req[c].kind = "mix" /\ req[c].pc \in {"mix", "apply"}
  /\ req[c].pc \in {"start", "reconfigureStop", "reconfigureStart"} => req[c].snap \in Settings
  /\ req[c].pc = "apply" => req[c].snap \in Volumes
  /\ req[c].gone => Calling(c) \/ req[c].pc \in {"refresh", "refreshing"}
  /\ c > requests => req[c].kind = "none"

\* Whoever waits for the refresh is still there when it ends, and none is in progress when
\* the routes have been restored.
RefreshShape ==
  /\ refresh.pc # "idle" /\ refresh.by \in Clients => req[refresh.by].pc = "refreshing"
  /\ Closed => refresh.pc = "idle"

\* The gate is closed before the shutdown looks at the store, and what it saw is stopped.
Halting ==
  /\ down # "up" => stopping
  /\ shown => stopping /\ runtime = NoRuntime

\* One request at a time drives the translation.
Alone == \A c, e \in Clients : Translating(c) /\ Translating(e) => c = e

\* What such a request knows of the store and the runtime at each of its steps.
Knows(c) ==
  /\ req[c].pc = "setRunning" => runtime # NoRuntime /\ runtime.cfg = store.cfg
  /\ req[c].pc \in {"clearRunning", "reconfigureStart"} => runtime = NoRuntime
  /\ req[c].pc \in {"start", "reconfigureStop", "reconfigureStart"} => req[c].snap.cfg = store.cfg
  /\ req[c].pc = "direction" => (req[c].was <=> store.running)
  /\ req[c].kind = "direction" /\ req[c].pc \in {"snapshot", "reconfigureStop", "reconfigureStart"}
       => store.running

\* What the store says of the translation is so.
Truth ==
  /\ store.running <=> runtime # NoRuntime
  /\ runtime # NoRuntime => runtime.cfg = store.cfg

\* A request that is to put the store and the runtime in line.
Owes(r) ==
  \/ r.pc \in {"setRunning", "clearRunning", "reconfigureStart", "reconfigureStop"}
  \/ r.pc = "snapshot" /\ r.kind = "direction"

\* While all is calm no requests cross, no dropped handler has a call of the controller left,
\* and the store tells the truth but for the request that is about to put it right.
Knowledge ==
  /\ ~overlapped => Alone /\ \A c \in Clients : Knows(c)
  /\ calm => /\ overlapped => \A c \in Clients : ~Translating(c)
             /\ \A c \in Clients : req[c].gone => ~Calling(c)
             /\ Truth \/ \E c \in Clients : Owes(req[c])

ControlInv ==
  /\ ControlTypeOK
  /\ \A c \in Clients : RequestShape(c)
  /\ RefreshShape
  /\ Halting
  /\ down = "up" => Knowledge

----------------------------------------------------------------------------
(* Facts about one step of one request.                                    *)

\* Every other request is left alone.
Others(c) == \A e \in Clients \ {c} : req'[e] = req[e]

\* A request goes to its next step and keeps what it carries.
LEMMA GoMoves ==
  ASSUME req \in [Clients -> Requests], NEW c \in Clients, NEW label \in Steps, Go(c, label)
  PROVE  /\ req' \in [Clients -> Requests] /\ Others(c)
         /\ req'[c].pc = label /\ req'[c].kind = req[c].kind
         /\ req'[c].snap = req[c].snap /\ req'[c].was = req[c].was /\ req'[c].gone = req[c].gone
<1>1. req[c] \in Requests
  OBVIOUS
<1> DEFINE new == [req[c] EXCEPT !.pc = label]
<1>2. /\ new \in Requests /\ new.pc = label /\ new.kind = req[c].kind
      /\ new.snap = req[c].snap /\ new.was = req[c].was /\ new.gone = req[c].gone
  BY <1>1 DEF Requests
<1>3. req' = [req EXCEPT ![c] = new]
  BY DEF Go
<1> HIDE DEF new
<1> QED BY <1>2, <1>3 DEF Others

\* The idle request is one, and carries nothing.
LEMMA IdleTyped ==
  /\ IdleRequest \in Requests
  /\ IdleRequest.pc = "idle" /\ IdleRequest.kind = "none" /\ IdleRequest.snap = NoRuntime
  /\ IdleRequest.gone \in BOOLEAN /\ ~IdleRequest.gone
  BY DEF IdleRequest, Requests, Steps

\* A request is answered.
LEMMA DoneMoves ==
  ASSUME req \in [Clients -> Requests], NEW c \in Clients, Done(c)
  PROVE  /\ req' \in [Clients -> Requests] /\ Others(c)
         /\ req'[c].pc = "idle" /\ req'[c].kind = "none" /\ req'[c].snap = NoRuntime
         /\ ~req'[c].gone
<1>1. req' = [req EXCEPT ![c] = IdleRequest]
  BY DEF Done
<1> QED BY <1>1, IdleTyped DEF Others

\* After an await a request goes on, or its handler was dropped and it is over.
LEMMA ResumeMoves ==
  ASSUME req \in [Clients -> Requests], NEW c \in Clients, NEW label \in Steps, Resume(c, label)
  PROVE  /\ req' \in [Clients -> Requests] /\ Others(c)
         /\ \/ /\ ~req[c].gone /\ req'[c].pc = label /\ req'[c].kind = req[c].kind
               /\ req'[c].snap = req[c].snap
            \/ req[c].gone /\ req'[c].pc = "idle" /\ req'[c].kind = "none"
         /\ ~req'[c].gone
<1>1. CASE req[c].gone
  BY <1>1, DoneMoves DEF Resume
<1>2. CASE ~req[c].gone
  BY <1>2, GoMoves DEF Resume
<1> QED BY <1>1, <1>2

\* A change of the store reaches the streams, which never hold more than their capacity.
LEMMA ChangeTyped ==
  ASSUME ControlTypeOK, NEW s \in Stores, Change(s)
  PROVE  store' = s /\ store' \in Stores /\ stream' \in [Subscribers -> Streams]
<1>1. ASSUME NEW x \in Subscribers PROVE Notified(x) \in Streams
  <2>1. stream[x] \in Streams
    BY DEF ControlTypeOK
  <2>2. stream[x].waiting \in 0..EventCapacity /\ EventCapacity \in Nat
    BY <2>1, ControlAssumption DEF Streams, ControlAssumption
  <2>3. CASE Closed
    BY <2>1, <2>3 DEF Notified
  <2>4. CASE ~Closed /\ stream[x].waiting < EventCapacity
    <3>1. Notified(x) = [stream[x] EXCEPT !.waiting = @ + 1, !.current = FALSE]
      BY <2>4 DEF Notified
    <3>2. stream[x].waiting + 1 \in 0..EventCapacity
      BY <2>2, <2>4
    <3> QED BY <2>1, <3>1, <3>2 DEF Streams
  <2>5. CASE ~Closed /\ ~(stream[x].waiting < EventCapacity)
    <3>1. Notified(x) = [stream[x] EXCEPT !.lagged = TRUE, !.current = FALSE]
      BY <2>5 DEF Notified
    <3> QED BY <2>1, <3>1 DEF Streams
  <2> QED BY <2>3, <2>4, <2>5
<1>2. store' = s /\ stream' = [x \in Subscribers |-> Notified(x)]
  BY DEF Change
<1> QED BY <1>1, <1>2

\* A fault is counted within its bound.
LEMMA FaultTyped == ASSUME ControlTypeOK, Fault \/ NoFault PROVE faults' \in 0..MaxFaults
  BY ControlAssumption DEF ControlAssumption, ControlTypeOK, Fault, NoFault

\* A runtime that runs has settings.
LEMMA RunningHasSettings ==
  ASSUME NEW r \in {NoRuntime} \cup Settings
  PROVE  r # NoRuntime <=> r \in Settings
<1>1. NoRuntime \notin Settings
  BY DEF NoRuntime, Settings, Providers
<1> QED BY <1>1

----------------------------------------------------------------------------
(* What the requests know, from the point of view of the one that drives   *)
(* the translation.                                                        *)

\* Knowledge, when c is the only request that drives the translation.
Fine(c) ==
  /\ Knows(c)
  /\ calm => (req[c].gone => ~Calling(c)) /\ (Truth \/ Owes(req[c]))

\* While c drives the translation and has met no other, no other request does.
LEMMA OthersStandBy ==
  ASSUME ControlInv, down = "up", ~overlapped, NEW c \in Clients, Translating(c)
  PROVE  /\ \A e \in Clients \ {c} : /\ ~Translating(e)
                                     /\ req[e].pc \in {"idle", "provider", "mix", "apply"}
         /\ Fine(c)
<1>1. \A e \in Clients \ {c} : ~Translating(e)
  BY DEF ControlInv, Knowledge, Alone
<1>2. \A e \in Clients \ {c} : req[e].pc \in {"idle", "provider", "mix", "apply"}
  BY <1>1 DEF ControlInv, RequestShape, Translating, Driving
<1>3. calm => Truth \/ Owes(req[c])
  BY <1>2 DEF ControlInv, Knowledge, Owes
<1> QED BY <1>1, <1>2, <1>3 DEF ControlInv, Knowledge, Fine

\* It is enough to look at c when c moves, and when it has met another nothing is claimed.
LEMMA DriverKeeps ==
  ASSUME ControlInv, down = "up", NEW c \in Clients, Translating(c),
         Others(c), overlapped' = overlapped,
         req'[c].kind \in {req[c].kind, "none"},
         overlapped /\ ~calm => ~calm',
         ~overlapped => Fine(c)'
  PROVE  Knowledge'
<1>1. CASE overlapped
  <2>1. ~calm
    BY <1>1 DEF ControlInv, Knowledge
  <2> QED BY <1>1, <2>1 DEF Knowledge
<1>2. CASE ~overlapped
  <2>1. \A e \in Clients \ {c} : /\ ~Translating(e)
                                 /\ req[e].pc \in {"idle", "provider", "mix", "apply"}
    BY <1>2, OthersStandBy
  <2>2. \A e \in Clients \ {c} : ~Translating(e)' /\ ~Calling(e)'
    BY <2>1 DEF Others, Translating, Calling
  <2>3. Alone'
    BY <2>2 DEF Alone
  <2>4. \A e \in Clients \ {c} : Knows(e)'
    BY <2>1 DEF Others, Knows, Translating, Driving
  <2>5. Knows(c)' /\ (calm' => (req'[c].gone => ~Calling(c)') /\ (Truth' \/ Owes(req[c])'))
    BY <1>2 DEF Fine
  <2> QED BY <1>2, <2>2, <2>3, <2>4, <2>5 DEF Knowledge
<1> QED BY <1>1, <1>2

\* A request at a step where it relies on nothing.
AtRest(r) ==
  \/ r.pc \in {"idle", "refresh", "refreshing", "provider", "mix", "apply"}
  \/ r.pc = "snapshot" /\ r.kind = "start"

Harmless(e) ==
  \/ req'[e] = req[e]
  \/ /\ ~Owes(req[e]) /\ AtRest(req'[e])
     /\ req'[e].kind = req[e].kind \/ req'[e].kind \notin {"start", "stop", "direction"}

\* Steps that leave the runtime and what the store says of it alone.
LEMMA HarmlessKeeps ==
  ASSUME ControlInv, down = "up",
         runtime' = runtime, overlapped' = overlapped, calm' = calm,
         store'.running = store.running, store'.cfg = store.cfg,
         \A e \in Clients : Harmless(e)
  PROVE  Knowledge'
<1>1. \A e \in Clients : Translating(e)' => Translating(e)
  BY DEF Harmless, Translating, Driving
<1>2. Alone => Alone'
  BY <1>1 DEF Alone
<1>3. ASSUME NEW e \in Clients, Owes(req[e]) PROVE req'[e] = req[e]
  BY <1>3 DEF Harmless
<1>4. Truth \/ (\E e \in Clients : Owes(req[e])) => Truth' \/ \E e \in Clients : Owes(req[e])'
  BY <1>3 DEF Truth
<1>5. ASSUME NEW e \in Clients PROVE /\ Knows(e) => Knows(e)'
                                     /\ (req[e].gone => ~Calling(e)) => (req'[e].gone => ~Calling(e)')
  <2>1. CASE req'[e] = req[e]
    BY <2>1 DEF Knows, Calling
  <2>2. CASE AtRest(req'[e])
    BY <2>2 DEF Knows, AtRest, Calling
  <2> QED BY <2>1, <2>2 DEF Harmless
<1> QED BY <1>1, <1>2, <1>4, <1>5 DEF ControlInv, Knowledge

\* A step of the handler of c keeps the invariant if it keeps these parts of it.
LEMMA HandlerKeeps ==
  ASSUME ControlInv, NEW c \in Clients, Others(c), req[c].pc # "refreshing",
         store' \in Stores, stream' \in [Subscribers -> Streams],
         runtime' \in {NoRuntime} \cup Settings, req' \in [Clients -> Requests],
         applied' \in {0, 100}, faults' \in 0..MaxFaults, calm' \in BOOLEAN,
         UNCHANGED <<stopping, refresh, ticker, loops, down, requests, overlapped, shown>>,
         runtime' \in {runtime, NoRuntime} \/ ~stopping,
         RequestShape(c)', down = "up" => Knowledge'
  PROVE  ControlInv'
<1>1. ControlTypeOK'
  BY DEF ControlInv, ControlTypeOK
<1>2. \A e \in Clients : RequestShape(e)'
  BY DEF ControlInv, RequestShape, Others, Calling
<1>3. RefreshShape'
  BY DEF ControlInv, RefreshShape, Others, Closed
<1>4. Halting'
  BY DEF ControlInv, Halting
<1> QED BY <1>1, <1>2, <1>3, <1>4 DEF ControlInv

----------------------------------------------------------------------------
(* The handlers, one lemma per step.                                       *)

\* The settings are read from the store.
LEMMA SnapshotInv ==
  ASSUME ControlInv, NEW c \in Clients, Snapshot(c) PROVE ControlInv'
<1>t. ControlTypeOK /\ req \in [Clients -> Requests] /\ RequestShape(c)
  BY DEF ControlInv, ControlTypeOK
<1> DEFINE snap == [provider |-> store.provider, cfg |-> store.cfg]
           label == IF req[c].kind = "start" THEN "start" ELSE "reconfigureStop"
           new == [req[c] EXCEPT !.snap = snap, !.pc = label]
<1>1. snap \in Settings /\ snap.cfg = store.cfg
  BY <1>t DEF ControlTypeOK, Stores, Settings
<1>2. Pc(c, "snapshot") /\ req' = [req EXCEPT ![c] = new]
  BY DEF Snapshot, Pc
<1> HIDE DEF snap
<1>3. /\ new \in Requests /\ new.pc = label /\ new.kind = req[c].kind /\ new.snap = snap
      /\ new.gone = req[c].gone
  BY <1>t, <1>1 DEF Requests, Steps
<1> HIDE DEF new
<1>4. /\ req' \in [Clients -> Requests] /\ Others(c)
      /\ req'[c].pc = label /\ req'[c].kind = req[c].kind /\ req'[c].snap = snap
      /\ req'[c].gone = req[c].gone
  BY <1>t, <1>2, <1>3 DEF Others
<1>5. UNCHANGED <<store, stream, runtime, stopping, refresh, ticker, loops, applied, down,
                  requests, faults, overlapped, calm, shown>>
  BY DEF Snapshot, NoChange, audio, history
<1>6. /\ req[c].pc = "snapshot" /\ req[c].kind \in {"start", "direction"} /\ ~req[c].gone
  BY <1>t, <1>2 DEF Pc, RequestShape, Calling
<1>7. RequestShape(c)'
  BY <1>t, <1>1, <1>4, <1>5, <1>6 DEF RequestShape, Calling
<1>8. ASSUME down = "up" PROVE Knowledge'
  <2>1. Translating(c)
    BY <1>6 DEF Translating, Driving
  <2>2. ASSUME ~overlapped PROVE Fine(c)'
    <3>1. Fine(c)
      BY <1>8, <2>1, <2>2, OthersStandBy
    <3>2. Knows(c)'
      BY <1>1, <1>4, <1>5, <1>6, <3>1 DEF Fine, Knows
    <3>3. calm' => Truth' \/ Owes(req[c])'
      BY <1>4, <1>5, <1>6, <3>1 DEF Fine, Truth, Owes
    <3> QED BY <1>4, <1>6, <3>2, <3>3 DEF Fine
  <2> QED BY <1>4, <1>5, <1>8, <2>1, <2>2, DriverKeeps
<1> QED BY <1>t, <1>4, <1>5, <1>6, <1>7, <1>8, HandlerKeeps DEF ControlTypeOK

\* DuplexRuntimeHandle::start, called by a request to start.
LEMMA StartCallInv ==
  ASSUME ControlInv, NEW c \in Clients, StartCall(c) PROVE ControlInv'
<1>t. ControlTypeOK /\ req \in [Clients -> Requests] /\ RequestShape(c)
  BY DEF ControlInv, ControlTypeOK
<1>1. /\ req[c].pc = "start" /\ req[c].kind = "start" /\ req[c].snap \in Settings
  BY <1>t DEF StartCall, Pc, RequestShape
<1>2. UNCHANGED <<store, stream, stopping, refresh, ticker, loops, applied, down,
                  requests, overlapped, calm, shown>>
  BY DEF StartCall, NoChange, audio, history
<1>3. faults' \in 0..MaxFaults
  BY <1>t, FaultTyped DEF StartCall, StartRuntime
<1>4. CASE runtime = NoRuntime /\ ~stopping /\ runtime' = req[c].snap /\ Resume(c, "setRunning")
  <2>1. /\ req' \in [Clients -> Requests] /\ Others(c) /\ ~req'[c].gone
        /\ \/ ~req[c].gone /\ req'[c].pc = "setRunning" /\ req'[c].kind = req[c].kind
           \/ req[c].gone /\ req'[c].pc = "idle" /\ req'[c].kind = "none"
    BY <1>t, <1>4, ResumeMoves DEF Steps
  <2>2. RequestShape(c)'
    BY <1>t, <1>1, <1>2, <2>1 DEF RequestShape
  <2>3. ASSUME down = "up" PROVE Knowledge'
    <3>1. Translating(c)
      BY <1>1 DEF Translating, Driving
    <3>2. ASSUME ~overlapped PROVE Fine(c)'
      <4>1. Fine(c)
        BY <2>3, <3>1, <3>2, OthersStandBy
      <4>2. runtime' # NoRuntime /\ runtime'.cfg = store.cfg
        BY <1>1, <1>4, <4>1, RunningHasSettings DEF Fine, Knows
      <4>3. Knows(c)'
        BY <1>2, <2>1, <4>2 DEF Knows
      <4>4. calm' => Owes(req[c])'
        BY <1>1, <1>2, <2>1, <4>1 DEF Fine, Owes, Calling
      <4> QED BY <2>1, <4>3, <4>4 DEF Fine
    <3> QED BY <1>2, <2>1, <2>3, <3>1, <3>2, DriverKeeps
  <2> QED BY <1>t, <1>1, <1>2, <1>3, <1>4, <2>1, <2>2, <2>3, HandlerKeeps DEF ControlTypeOK
<1>5. CASE runtime' = runtime /\ Done(c)
  <2>1. /\ req' \in [Clients -> Requests] /\ Others(c)
        /\ req'[c].pc = "idle" /\ req'[c].kind = "none" /\ ~req'[c].gone
    BY <1>t, <1>5, DoneMoves
  <2>2. RequestShape(c)'
    BY <2>1 DEF RequestShape
  <2>3. \A e \in Clients : Harmless(e)
    BY <1>1, <2>1 DEF Harmless, Others, Owes, AtRest
  <2>4. down = "up" => Knowledge'
    BY <1>2, <1>5, <2>3, HarmlessKeeps
  <2> QED BY <1>t, <1>1, <1>2, <1>3, <1>5, <2>1, <2>2, <2>4, HandlerKeeps DEF ControlTypeOK
<1> QED BY <1>4, <1>5 DEF StartCall, StartRuntime

\* DuplexRuntimeHandle::stop, called by a request to stop: when it fails and has emptied the
\* handle, the store goes on showing what it stopped and all is no longer calm.
LEMMA StopCallInv ==
  ASSUME ControlInv, NEW c \in Clients, StopCall(c) PROVE ControlInv'
<1>t. ControlTypeOK /\ req \in [Clients -> Requests] /\ RequestShape(c)
  BY DEF ControlInv, ControlTypeOK
<1>1. /\ req[c].pc = "stop" /\ req[c].kind = "stop"
  BY <1>t DEF StopCall, Pc, RequestShape
<1>2. UNCHANGED <<store, stream, stopping, refresh, ticker, loops, applied, down,
                  requests, overlapped, shown>>
  BY DEF StopCall, NoChange, Seen, audio
<1>3. faults' \in 0..MaxFaults /\ runtime' = NoRuntime
  BY <1>t, FaultTyped DEF StopCall, StopRuntime
<1>0. Translating(c)
  BY <1>1 DEF Translating, Driving
<1>4. CASE calm' = calm /\ Resume(c, "clearRunning")
  <2>1. /\ req' \in [Clients -> Requests] /\ Others(c) /\ ~req'[c].gone
        /\ \/ ~req[c].gone /\ req'[c].pc = "clearRunning" /\ req'[c].kind = req[c].kind
           \/ req[c].gone /\ req'[c].pc = "idle" /\ req'[c].kind = "none"
    BY <1>t, <1>4, ResumeMoves DEF Steps
  <2>2. RequestShape(c)'
    BY <1>t, <1>1, <1>2, <2>1 DEF RequestShape
  <2>3. ASSUME down = "up" PROVE Knowledge'
    <3>1. ASSUME ~overlapped PROVE Fine(c)'
      <4>1. Fine(c)
        BY <1>0, <2>3, <3>1, OthersStandBy
      <4>2. Knows(c)'
        BY <1>1, <1>3, <2>1 DEF Knows
      <4>3. calm' => Owes(req[c])'
        BY <1>1, <1>4, <2>1, <4>1 DEF Fine, Owes, Calling
      <4> QED BY <2>1, <4>2, <4>3 DEF Fine
    <3> QED BY <1>0, <1>2, <1>4, <2>1, <2>3, <3>1, DriverKeeps
  <2> QED BY <1>t, <1>1, <1>2, <1>3, <1>4, <2>1, <2>2, <2>3, HandlerKeeps DEF ControlTypeOK
<1>5. CASE calm' = (calm /\ runtime = NoRuntime) /\ Done(c)
  <2>1. /\ req' \in [Clients -> Requests] /\ Others(c)
        /\ req'[c].pc = "idle" /\ req'[c].kind = "none" /\ ~req'[c].gone
    BY <1>t, <1>5, DoneMoves
  <2>2. RequestShape(c)'
    BY <2>1 DEF RequestShape
  <2>3. calm' \in BOOLEAN /\ (calm' => calm /\ runtime = NoRuntime)
    BY <1>5, Zenon
  <2>4. ASSUME down = "up" PROVE Knowledge'
    <3>1. ASSUME ~overlapped PROVE Fine(c)'
      <4>1. Fine(c)
        BY <1>0, <2>4, <3>1, OthersStandBy
      <4>2. Knows(c)'
        BY <2>1 DEF Knows
      <4>3. calm' => Truth'
        BY <1>1, <1>2, <1>3, <2>3, <4>1 DEF Fine, Owes, Truth
      <4> QED BY <2>1, <4>2, <4>3 DEF Fine
    <3> QED BY <1>0, <1>2, <2>1, <2>3, <2>4, <3>1, DriverKeeps
  <2> QED BY <1>t, <1>1, <1>2, <1>3, <2>1, <2>2, <2>3, <2>4, HandlerKeeps DEF ControlTypeOK
<1> QED BY <1>4, <1>5 DEF StopCall, StopRuntime, SameCalm

\* What a request that had its way makes of the history.
LEMMA HadItsWayTyped ==
  ASSUME ControlTypeOK, NEW c \in Clients, HadItsWay(c)
  PROVE  calm' \in BOOLEAN /\ (overlapped /\ ~calm => ~calm')
<1>1. calm' = (calm \/ (~overlapped /\ ~req[c].gone))
  BY DEF HadItsWay
<1>2. calm' \in BOOLEAN
  BY <1>1, Zenon
<1> QED BY <1>1, <1>2

\* set_translation_running(true), after the await.
LEMMA SetRunningInv ==
  ASSUME ControlInv, NEW c \in Clients, SetRunning(c) PROVE ControlInv'
<1>t. ControlTypeOK /\ req \in [Clients -> Requests] /\ RequestShape(c)
  BY DEF ControlInv, ControlTypeOK
<1>1. /\ req[c].pc = "setRunning" /\ req[c].kind = "start"
  BY <1>t DEF SetRunning, Pc, RequestShape
<1>2. UNCHANGED <<runtime, stopping, refresh, ticker, loops, applied, down, requests, faults,
                  overlapped, shown>>
  BY DEF SetRunning, Seen, audio
<1> DEFINE s == [store EXCEPT !.running = TRUE]
<1>3. s \in Stores /\ s.running /\ s.cfg = store.cfg
  BY <1>t DEF ControlTypeOK, Stores
<1>4. Change(s)
  BY DEF SetRunning
<1>5. store' = s /\ store' \in Stores /\ stream' \in [Subscribers -> Streams]
  BY <1>t, <1>3, <1>4, ChangeTyped
<1> HIDE DEF s
<1>6. /\ req' \in [Clients -> Requests] /\ Others(c)
      /\ req'[c].pc = "idle" /\ req'[c].kind = "none" /\ ~req'[c].gone
  BY <1>t, DoneMoves DEF SetRunning
<1>7. RequestShape(c)'
  BY <1>6 DEF RequestShape
<1>8. calm' \in BOOLEAN /\ (overlapped /\ ~calm => ~calm')
  BY <1>t, HadItsWayTyped DEF SetRunning
<1>9. ASSUME down = "up" PROVE Knowledge'
  <2>1. Translating(c)
    BY <1>1 DEF Translating, Driving
  <2>2. ASSUME ~overlapped PROVE Fine(c)'
    <3>1. Fine(c)
      BY <1>9, <2>1, <2>2, OthersStandBy
    <3>2. Truth'
      BY <1>1, <1>2, <1>3, <1>5, <3>1 DEF Fine, Knows, Truth
    <3> QED BY <1>6, <3>2 DEF Fine, Knows
  <2> QED BY <1>2, <1>6, <1>8, <1>9, <2>1, <2>2, DriverKeeps
<1> QED BY <1>t, <1>1, <1>2, <1>5, <1>6, <1>7, <1>8, <1>9, HandlerKeeps DEF ControlTypeOK

\* set_translation_running(false), after a stop or a failed reconfiguration.
LEMMA ClearRunningInv ==
  ASSUME ControlInv, NEW c \in Clients, ClearRunning(c) PROVE ControlInv'
<1>t. ControlTypeOK /\ req \in [Clients -> Requests] /\ RequestShape(c)
  BY DEF ControlInv, ControlTypeOK
<1>1. /\ req[c].pc = "clearRunning" /\ req[c].kind \in {"stop", "direction"} /\ ~req[c].gone
  BY <1>t DEF ClearRunning, Pc, RequestShape, Calling
<1>2. UNCHANGED <<runtime, stopping, refresh, ticker, loops, applied, down, requests, faults,
                  overlapped, shown>>
  BY DEF ClearRunning, Seen, audio
<1> DEFINE s == [store EXCEPT !.running = FALSE]
<1>3. s \in Stores /\ s.running \in BOOLEAN /\ ~s.running
  BY <1>t DEF ControlTypeOK, Stores
<1>4. Change(s)
  BY DEF ClearRunning
<1>5. store' = s /\ store' \in Stores /\ stream' \in [Subscribers -> Streams]
  BY <1>t, <1>3, <1>4, ChangeTyped
<1> HIDE DEF s
<1>6. /\ req' \in [Clients -> Requests] /\ Others(c) /\ ~req'[c].gone
      /\ \/ req'[c].pc = "idle" /\ req'[c].kind = "none"
         \/ req'[c].pc = "refresh" /\ req'[c].kind = "stop" /\ req[c].kind = "stop"
  <2>1. CASE req[c].kind = "stop"
    BY <1>t, <1>1, <2>1, GoMoves DEF ClearRunning, Steps
  <2>2. CASE req[c].kind # "stop"
    BY <1>t, <2>2, DoneMoves DEF ClearRunning
  <2> QED BY <2>1, <2>2
<1>7. RequestShape(c)'
  BY <1>t, <1>2, <1>6 DEF RequestShape
<1>8. calm' \in BOOLEAN /\ (overlapped /\ ~calm => ~calm')
  BY <1>t, HadItsWayTyped DEF ClearRunning
<1>9. ASSUME down = "up" PROVE Knowledge'
  <2>1. Translating(c)
    BY <1>1 DEF Translating, Driving
  <2>2. ASSUME ~overlapped PROVE Fine(c)'
    <3>1. Fine(c)
      BY <1>9, <2>1, <2>2, OthersStandBy
    <3>2. Truth'
      BY <1>1, <1>2, <1>3, <1>5, <3>1 DEF Fine, Knows, Truth
    <3> QED BY <1>6, <3>2 DEF Fine, Knows
  <2> QED BY <1>2, <1>6, <1>8, <1>9, <2>1, <2>2, DriverKeeps
<1> QED BY <1>t, <1>1, <1>2, <1>5, <1>6, <1>7, <1>8, <1>9, HandlerKeeps DEF ControlTypeOK

\* patch_direction reads was_running.
LEMMA ReadRunningInv ==
  ASSUME ControlInv, NEW c \in Clients, ReadRunning(c) PROVE ControlInv'
<1>t. ControlTypeOK /\ req \in [Clients -> Requests] /\ RequestShape(c)
  BY DEF ControlInv, ControlTypeOK
<1> DEFINE new == [req[c] EXCEPT !.was = store.running, !.pc = "direction"]
<1>1. /\ req[c].pc = "was" /\ req[c].kind = "direction" /\ ~req[c].gone
  BY <1>t DEF ReadRunning, Pc, RequestShape, Calling
<1>2. UNCHANGED <<store, stream, runtime, stopping, refresh, ticker, loops, applied, down, requests,
                  faults, overlapped, calm, shown>>
  BY DEF ReadRunning, NoChange, audio, history
<1>3. store.running \in BOOLEAN
  BY <1>t DEF ControlTypeOK, Stores
<1>4. /\ new \in Requests /\ new.pc = "direction" /\ new.kind = req[c].kind
      /\ new.was = store.running /\ new.gone = req[c].gone
  BY <1>t, <1>3 DEF Requests, Steps
<1>5. req' = [req EXCEPT ![c] = new]
  BY DEF ReadRunning
<1> HIDE DEF new
<1>6. /\ req' \in [Clients -> Requests] /\ Others(c) /\ ~req'[c].gone
      /\ req'[c].pc = "direction" /\ req'[c].kind = req[c].kind /\ req'[c].was = store.running
  BY <1>t, <1>1, <1>4, <1>5 DEF Others
<1>7. RequestShape(c)'
  BY <1>t, <1>1, <1>2, <1>6 DEF RequestShape
<1>8. ASSUME down = "up" PROVE Knowledge'
  <2>1. Translating(c)
    BY <1>1 DEF Translating, Driving
  <2>2. ASSUME ~overlapped PROVE Fine(c)'
    <3>1. Fine(c)
      BY <1>8, <2>1, <2>2, OthersStandBy
    <3>2. Knows(c)'
      BY <1>2, <1>6 DEF Knows
    <3>3. calm' => Truth'
      BY <1>1, <1>2, <3>1 DEF Fine, Truth, Owes
    <3> QED BY <1>6, <3>2, <3>3 DEF Fine
  <2> QED BY <1>2, <1>6, <1>8, <2>1, <2>2, DriverKeeps
<1> QED BY <1>t, <1>1, <1>2, <1>6, <1>7, <1>8, HandlerKeeps DEF ControlTypeOK

\* patch_direction writes the settings of a direction.
LEMMA SetDirectionInv ==
  ASSUME ControlInv, NEW c \in Clients, NEW cfg \in Configs, set_direction(c, cfg) PROVE ControlInv'
<1>t. ControlTypeOK /\ req \in [Clients -> Requests] /\ RequestShape(c)
  BY DEF ControlInv, ControlTypeOK
<1>1. /\ req[c].pc = "direction" /\ req[c].kind = "direction" /\ ~req[c].gone
  BY <1>t DEF set_direction, Pc, RequestShape, Calling
<1>2. UNCHANGED <<runtime, stopping, refresh, ticker, loops, applied, down, requests, faults,
                  overlapped, calm, shown>>
  BY DEF set_direction, audio, history
<1> DEFINE s == [store EXCEPT !.cfg = cfg]
<1>3. s \in Stores /\ s.running = store.running
  BY <1>t DEF ControlTypeOK, Stores
<1>4. Change(s)
  BY DEF set_direction
<1>5. store' = s /\ store' \in Stores /\ stream' \in [Subscribers -> Streams]
  BY <1>t, <1>3, <1>4, ChangeTyped
<1> HIDE DEF s
<1>6. /\ req' \in [Clients -> Requests] /\ Others(c) /\ ~req'[c].gone
      /\ \/ req'[c].pc = "idle" /\ req'[c].kind = "none" /\ ~req[c].was
         \/ req'[c].pc = "snapshot" /\ req'[c].kind = "direction" /\ req[c].was
  <2>1. CASE req[c].was
    BY <1>t, <1>1, <2>1, GoMoves DEF set_direction, Steps
  <2>2. CASE ~req[c].was
    BY <1>t, <2>2, DoneMoves DEF set_direction
  <2> QED BY <2>1, <2>2
<1>7. RequestShape(c)'
  BY <1>t, <1>1, <1>2, <1>6 DEF RequestShape
<1>8. ASSUME down = "up" PROVE Knowledge'
  <2>1. Translating(c)
    BY <1>1 DEF Translating, Driving
  <2>2. ASSUME ~overlapped PROVE Fine(c)'
    <3>1. Fine(c) /\ (req[c].was <=> store.running)
      BY <1>1, <1>8, <2>1, <2>2, OthersStandBy DEF Fine, Knows
    <3>2. Knows(c)'
      BY <1>3, <1>5, <1>6, <3>1 DEF Knows
    <3>3. calm' => Truth' \/ Owes(req[c])'
      BY <1>1, <1>2, <1>3, <1>5, <1>6, <3>1 DEF Fine, Truth, Owes
    <3> QED BY <1>6, <3>2, <3>3 DEF Fine
  <2> QED BY <1>1, <1>2, <1>6, <1>8, <2>1, <2>2, DriverKeeps
<1> QED BY <1>t, <1>1, <1>2, <1>5, <1>6, <1>7, <1>8, HandlerKeeps DEF ControlTypeOK

\* A running translation is stopped to be reconfigured.
LEMMA ReconfigureStopInv ==
  ASSUME ControlInv, NEW c \in Clients, ReconfigureStop(c) PROVE ControlInv'
<1>t. ControlTypeOK /\ req \in [Clients -> Requests] /\ RequestShape(c)
  BY DEF ControlInv, ControlTypeOK
<1>1. /\ req[c].pc = "reconfigureStop" /\ req[c].kind = "direction" /\ req[c].snap \in Settings
  BY <1>t DEF ReconfigureStop, Pc, RequestShape
<1>2. UNCHANGED <<store, stream, stopping, refresh, ticker, loops, applied, down, requests,
                  overlapped, calm, shown>>
  BY DEF ReconfigureStop, NoChange, audio, history
<1>3. faults' \in 0..MaxFaults /\ runtime' = NoRuntime
  BY <1>t, FaultTyped DEF ReconfigureStop, StopRuntime
<1>4. /\ req' \in [Clients -> Requests] /\ Others(c)
      /\ \/ /\ req'[c].pc = "reconfigureStart" /\ req'[c].kind = req[c].kind
            /\ req'[c].snap = req[c].snap /\ req'[c].gone = req[c].gone
         \/ /\ ~req[c].gone /\ req'[c].pc = "clearRunning" /\ req'[c].kind = req[c].kind
            /\ ~req'[c].gone
         \/ req[c].gone /\ req'[c].pc = "idle" /\ req'[c].kind = "none" /\ ~req'[c].gone
  <2>1. CASE Go(c, "reconfigureStart")
    BY <1>t, <2>1, GoMoves DEF Steps
  <2>2. CASE Resume(c, "clearRunning")
    BY <1>t, <2>2, ResumeMoves DEF Steps
  <2> QED BY <2>1, <2>2 DEF ReconfigureStop, StopRuntime
<1>5. RequestShape(c)'
  BY <1>t, <1>1, <1>2, <1>4 DEF RequestShape, Calling
<1>6. ASSUME down = "up" PROVE Knowledge'
  <2>1. Translating(c)
    BY <1>1 DEF Translating, Driving
  <2>2. ASSUME ~overlapped PROVE Fine(c)'
    <3>1. Fine(c)
      BY <1>6, <2>1, <2>2, OthersStandBy
    <3>2. Knows(c)'
      BY <1>1, <1>2, <1>3, <1>4, <3>1 DEF Fine, Knows
    <3>3. calm' => ~req'[c].gone /\ Owes(req[c])'
      BY <1>1, <1>2, <1>4, <3>1 DEF Fine, Owes, Calling
    <3> QED BY <3>2, <3>3 DEF Fine
  <2> QED BY <1>2, <1>4, <1>6, <2>1, <2>2, DriverKeeps
<1> QED BY <1>t, <1>1, <1>2, <1>3, <1>4, <1>5, <1>6, HandlerKeeps DEF ControlTypeOK

\* The translation is started again with the settings that were read.
LEMMA ReconfigureStartInv ==
  ASSUME ControlInv, NEW c \in Clients, ReconfigureStart(c) PROVE ControlInv'
<1>t. ControlTypeOK /\ req \in [Clients -> Requests] /\ RequestShape(c)
  BY DEF ControlInv, ControlTypeOK
<1>1. /\ req[c].pc = "reconfigureStart" /\ req[c].kind = "direction" /\ req[c].snap \in Settings
  BY <1>t DEF ReconfigureStart, Pc, RequestShape
<1>2. UNCHANGED <<store, stream, stopping, refresh, ticker, loops, applied, down, requests,
                  overlapped, shown>>
  BY DEF ReconfigureStart, NoChange, Seen, audio
<1>3. faults' \in 0..MaxFaults
  BY <1>t, FaultTyped DEF ReconfigureStart, StartRuntime
<1>0. Translating(c)
  BY <1>1 DEF Translating, Driving
<1>k. ASSUME down = "up", ~overlapped
      PROVE  /\ Fine(c) /\ runtime = NoRuntime /\ store.running /\ req[c].snap.cfg = store.cfg
             /\ req[c].snap # NoRuntime
  BY <1>0, <1>1, <1>k, OthersStandBy, RunningHasSettings DEF Fine, Knows
<1>4. CASE ~stopping /\ runtime' = req[c].snap /\ Done(c) /\ HadItsWay(c)
  <2>1. /\ req' \in [Clients -> Requests] /\ Others(c)
        /\ req'[c].pc = "idle" /\ req'[c].kind = "none" /\ ~req'[c].gone
    BY <1>t, <1>4, DoneMoves
  <2>2. RequestShape(c)'
    BY <2>1 DEF RequestShape
  <2>3. calm' \in BOOLEAN /\ (overlapped /\ ~calm => ~calm')
    BY <1>t, <1>4, HadItsWayTyped
  <2>4. ASSUME down = "up" PROVE Knowledge'
    <3>1. ASSUME ~overlapped PROVE Fine(c)'
      <4>1. Truth'
        BY <1>2, <1>4, <1>k, <2>4, <3>1 DEF Truth
      <4> QED BY <2>1, <4>1 DEF Fine, Knows
    <3> QED BY <1>0, <1>2, <2>1, <2>3, <2>4, <3>1, DriverKeeps
  <2> QED BY <1>t, <1>1, <1>2, <1>3, <1>4, <2>1, <2>2, <2>3, <2>4, HandlerKeeps DEF ControlTypeOK
<1>5. CASE runtime' = runtime /\ Resume(c, "clearRunning") /\ calm' = calm
  <2>1. /\ req' \in [Clients -> Requests] /\ Others(c) /\ ~req'[c].gone
        /\ \/ ~req[c].gone /\ req'[c].pc = "clearRunning" /\ req'[c].kind = req[c].kind
           \/ req[c].gone /\ req'[c].pc = "idle" /\ req'[c].kind = "none"
    BY <1>t, <1>5, ResumeMoves DEF Steps
  <2>2. RequestShape(c)'
    BY <1>t, <1>1, <1>2, <2>1 DEF RequestShape
  <2>3. ASSUME down = "up" PROVE Knowledge'
    <3>1. ASSUME ~overlapped PROVE Fine(c)'
      <4>1. Fine(c) /\ runtime = NoRuntime
        BY <1>k, <2>3, <3>1
      <4>2. Knows(c)'
        BY <1>1, <1>5, <2>1, <4>1 DEF Knows
      <4>3. calm' => Owes(req[c])'
        BY <1>1, <1>5, <2>1, <4>1 DEF Fine, Owes, Calling
      <4> QED BY <2>1, <4>2, <4>3 DEF Fine
    <3> QED BY <1>0, <1>2, <1>5, <2>1, <2>3, <3>1, DriverKeeps
  <2> QED BY <1>t, <1>1, <1>2, <1>3, <1>5, <2>1, <2>2, <2>3, HandlerKeeps DEF ControlTypeOK
<1> QED BY <1>4, <1>5 DEF ReconfigureStart, StartRuntime, SameCalm

\* patch_provider changes what the store says, and leaves the runtime as it is.
LEMMA SetProviderInv ==
  ASSUME ControlInv, NEW c \in Clients, NEW p \in Providers, NEW consent \in BOOLEAN,
         set_provider(c, p, consent)
  PROVE  ControlInv'
<1>t. ControlTypeOK /\ req \in [Clients -> Requests] /\ RequestShape(c)
  BY DEF ControlInv, ControlTypeOK
<1>1. /\ req[c].pc = "provider" /\ req[c].kind = "provider"
  BY <1>t DEF set_provider, Pc, RequestShape
<1>2. UNCHANGED <<runtime, stopping, refresh, ticker, loops, applied, down, requests, faults,
                  overlapped, calm, shown>>
  BY DEF set_provider, audio, history
<1> DEFINE s == [store EXCEPT !.provider = p, !.audio_leaves_machine = (p = "openai")]
<1>3. s \in Stores /\ s.running = store.running /\ s.cfg = store.cfg
  BY <1>t DEF ControlTypeOK, Stores
<1>4. Change(s)
  BY DEF set_provider
<1>5. store' = s /\ store' \in Stores /\ stream' \in [Subscribers -> Streams]
  BY <1>t, <1>3, <1>4, ChangeTyped
<1> HIDE DEF s
<1>6. /\ req' \in [Clients -> Requests] /\ Others(c)
      /\ req'[c].pc = "idle" /\ req'[c].kind = "none" /\ ~req'[c].gone
  BY <1>t, DoneMoves DEF set_provider
<1>7. RequestShape(c)'
  BY <1>6 DEF RequestShape
<1>8. \A e \in Clients : Harmless(e)
  BY <1>1, <1>6 DEF Harmless, Others, Owes, AtRest
<1>9. down = "up" => Knowledge'
  BY <1>2, <1>3, <1>5, <1>8, HarmlessKeeps
<1> QED BY <1>t, <1>1, <1>2, <1>5, <1>6, <1>7, <1>9, HandlerKeeps DEF ControlTypeOK

\* A request that is refused changes nothing.
LEMMA RejectInv ==
  ASSUME ControlInv, NEW c \in Clients, Reject(c) PROVE ControlInv'
<1>t. ControlTypeOK /\ req \in [Clients -> Requests] /\ RequestShape(c)
  BY DEF ControlInv, ControlTypeOK
<1>1. req[c].pc \in {"direction", "provider", "mix"}
  BY DEF Reject
<1>2. UNCHANGED <<store, stream, runtime, stopping, refresh, ticker, loops, applied, down, requests,
                  faults, overlapped, calm, shown>>
  BY DEF Reject, NoChange, audio, history
<1>3. /\ req' \in [Clients -> Requests] /\ Others(c)
      /\ req'[c].pc = "idle" /\ req'[c].kind = "none" /\ ~req'[c].gone
  BY <1>t, DoneMoves DEF Reject
<1>4. RequestShape(c)'
  BY <1>3 DEF RequestShape
<1>5. \A e \in Clients : Harmless(e)
  BY <1>1, <1>3 DEF Harmless, Others, Owes, AtRest
<1>6. down = "up" => Knowledge'
  BY <1>2, <1>5, HarmlessKeeps
<1> QED BY <1>t, <1>1, <1>2, <1>3, <1>4, <1>6, HandlerKeeps DEF ControlTypeOK

\* patch_audio_mix changes the store and remembers the volume.
LEMMA SetAudioMixInv ==
  ASSUME ControlInv, NEW c \in Clients, NEW m \in Mixes, set_audio_mix(c, m) PROVE ControlInv'
<1>t. ControlTypeOK /\ req \in [Clients -> Requests] /\ RequestShape(c)
  BY DEF ControlInv, ControlTypeOK
<1>1. /\ req[c].pc = "mix" /\ req[c].kind = "mix" /\ ~req[c].gone
  BY <1>t DEF set_audio_mix, Pc, RequestShape, Calling
<1>2. UNCHANGED <<runtime, stopping, refresh, ticker, loops, applied, down, requests, faults,
                  overlapped, calm, shown>>
  BY DEF set_audio_mix, audio, history
<1> DEFINE s == [store EXCEPT !.mix = m]
           snap == [provider |-> "none", volume |-> m]
           new == [req[c] EXCEPT !.pc = "apply", !.snap = snap]
<1>3. s \in Stores /\ s.running = store.running /\ s.cfg = store.cfg
  BY <1>t DEF ControlTypeOK, Stores
<1>4. Change(s)
  BY DEF set_audio_mix
<1>5. store' = s /\ store' \in Stores /\ stream' \in [Subscribers -> Streams]
  BY <1>t, <1>3, <1>4, ChangeTyped
<1> HIDE DEF s
<1>6. snap \in Volumes
  BY DEF Volumes
<1>7. req' = [req EXCEPT ![c] = new]
  BY DEF set_audio_mix
<1> HIDE DEF snap
<1>8. /\ new \in Requests /\ new.pc = "apply" /\ new.kind = req[c].kind /\ new.snap = snap
      /\ new.gone = req[c].gone
  BY <1>t, <1>6 DEF Requests, Steps
<1> HIDE DEF new
<1>9. /\ req' \in [Clients -> Requests] /\ Others(c)
      /\ req'[c].pc = "apply" /\ req'[c].kind = req[c].kind /\ req'[c].snap = snap /\ ~req'[c].gone
  BY <1>t, <1>1, <1>7, <1>8 DEF Others
<1>10. RequestShape(c)'
  BY <1>t, <1>1, <1>2, <1>6, <1>9 DEF RequestShape
<1>11. \A e \in Clients : Harmless(e)
  BY <1>1, <1>9 DEF Harmless, Others, Owes, AtRest
<1>12. down = "up" => Knowledge'
  BY <1>2, <1>3, <1>5, <1>11, HarmlessKeeps
<1> QED BY <1>t, <1>1, <1>2, <1>5, <1>9, <1>10, <1>12, HandlerKeeps DEF ControlTypeOK

\* The volume is applied in the sound server.
LEMMA ApplyMixInv ==
  ASSUME ControlInv, NEW c \in Clients, ApplyMix(c) PROVE ControlInv'
<1>t. ControlTypeOK /\ req \in [Clients -> Requests] /\ RequestShape(c)
  BY DEF ControlInv, ControlTypeOK
<1>1. /\ req[c].pc = "apply" /\ req[c].kind = "mix" /\ req[c].snap \in Volumes
  BY <1>t DEF ApplyMix, Pc, RequestShape
<1>2. UNCHANGED <<store, stream, runtime, stopping, refresh, ticker, loops, down, requests,
                  overlapped, calm, shown>>
  BY DEF ApplyMix, NoChange, history
<1>3. req[c].snap.volume \in {0, 100}
  BY <1>1 DEF Volumes, Mixes
<1>4. applied' \in {0, 100}
  BY <1>t, <1>3 DEF ApplyMix, SetVolume, ControlTypeOK
<1>5. faults' \in 0..MaxFaults
  BY <1>t, FaultTyped DEF ApplyMix, SetVolume
<1>6. /\ req' \in [Clients -> Requests] /\ Others(c)
      /\ req'[c].pc = "idle" /\ req'[c].kind = "none" /\ ~req'[c].gone
  BY <1>t, DoneMoves DEF ApplyMix
<1>7. RequestShape(c)'
  BY <1>6 DEF RequestShape
<1>8. \A e \in Clients : Harmless(e)
  BY <1>1, <1>6 DEF Harmless, Others, Owes, AtRest
<1>9. down = "up" => Knowledge'
  BY <1>2, <1>8, HarmlessKeeps
<1> QED BY <1>t, <1>1, <1>2, <1>4, <1>5, <1>6, <1>7, <1>9, HandlerKeeps DEF ControlTypeOK

\* A request refreshes the audio state, unless the daemon has restored the routes.
LEMMA RequestRefreshInv ==
  ASSUME ControlInv, NEW c \in Clients, RequestRefresh(c) PROVE ControlInv'
<1>t. ControlTypeOK /\ req \in [Clients -> Requests] /\ RequestShape(c)
  BY DEF ControlInv, ControlTypeOK
<1>1. /\ req[c].pc = "refresh" /\ req[c].kind \in {"start", "stop"} /\ refresh.pc = "idle"
  BY <1>t DEF RequestRefresh, Pc, RequestShape
<1>2. UNCHANGED <<store, stream, runtime, stopping, ticker, loops, applied, down, requests, faults,
                  overlapped, calm, shown>>
  BY DEF RequestRefresh, NoChange, history
<1>3. CASE Active
  <2>1. Go(c, "refreshing") /\ refresh' = [IdleRefresh EXCEPT !.pc = "read", !.by = c]
    BY <1>3 DEF RequestRefresh
  <2>a. refresh' = [pc |-> "read", by |-> c, want |-> {}]
    BY <2>1 DEF IdleRefresh
  <2>b. c \in 0..MaxRequests
    BY ControlAssumption DEF Clients, ControlAssumption
  <2>2. /\ refresh' \in [pc : {"idle", "read", "requests", "ensure"}, by : 0..MaxRequests,
                         want : SUBSET Devices]
        /\ refresh'.by = c
    BY <2>a, <2>b
  <2>3. /\ req' \in [Clients -> Requests] /\ Others(c)
        /\ req'[c].pc = "refreshing" /\ req'[c].kind = req[c].kind
        /\ req'[c].gone = req[c].gone
    BY <1>t, <2>1, GoMoves DEF Steps
  <2>4. ControlTypeOK'
    BY <1>t, <1>2, <2>2, <2>3 DEF ControlTypeOK
  <2>5. \A e \in Clients : RequestShape(e)'
    BY <1>1, <1>2, <2>3 DEF ControlInv, RequestShape, Others, Calling
  <2>6. RefreshShape'
    BY <1>2, <1>3, <2>2, <2>3 DEF RefreshShape, Active, Closed
  <2>7. \A e \in Clients : Harmless(e)
    BY <1>1, <2>3 DEF Harmless, Others, Owes, AtRest
  <2>8. down = "up" => Knowledge'
    BY <1>2, <2>7, HarmlessKeeps
  <2>9. Halting'
    BY <1>2 DEF ControlInv, Halting
  <2> QED BY <1>2, <2>4, <2>5, <2>6, <2>8, <2>9 DEF ControlInv
<1>4. CASE ~Active
  <2>1. /\ refresh' = refresh /\ req' \in [Clients -> Requests] /\ Others(c) /\ ~req'[c].gone
        /\ \/ req'[c].pc = "snapshot" /\ req'[c].kind = "start" /\ req[c].kind = "start"
           \/ req'[c].pc = "idle" /\ req'[c].kind = "none"
    <3>1. CASE req[c].kind = "start"
      BY <1>t, <1>4, <3>1, ResumeMoves DEF RequestRefresh, Steps
    <3>2. CASE req[c].kind # "start"
      BY <1>t, <1>4, <3>2, DoneMoves DEF RequestRefresh
    <3> QED BY <3>1, <3>2
  <2>2. RequestShape(c)'
    BY <1>t, <1>2, <2>1 DEF RequestShape
  <2>3. \A e \in Clients : Harmless(e)
    BY <1>1, <2>1 DEF Harmless, Others, Owes, AtRest
  <2>4. down = "up" => Knowledge'
    BY <1>2, <2>3, HarmlessKeeps
  <2> QED BY <1>t, <1>1, <1>2, <2>1, <2>2, <2>4, HandlerKeeps DEF ControlTypeOK
<1> QED BY <1>3, <1>4

\* Every step of a handler keeps the invariant.
LEMMA HandleInv == ASSUME ControlInv, NEW c \in Clients, Handle(c) PROVE ControlInv'
  BY RequestRefreshInv, SnapshotInv, StartCallInv, StopCallInv, SetRunningInv, ClearRunningInv,
     ReadRunningInv, SetDirectionInv, ReconfigureStopInv, ReconfigureStartInv, SetProviderInv,
     RejectInv, SetAudioMixInv, ApplyMixInv
  DEF Handle

\* The client gives up: its handler is dropped, and all is calm only if it had not acted.
LEMMA DisconnectInv ==
  ASSUME ControlInv, NEW c \in Clients, Disconnect(c) PROVE ControlInv'
<1>t. ControlTypeOK /\ req \in [Clients -> Requests] /\ RequestShape(c) /\ Halting /\ RefreshShape
  BY DEF ControlInv, ControlTypeOK
<1>1. UNCHANGED <<store, stream, runtime, stopping, refresh, ticker, loops, applied, down, requests,
                  overlapped, shown>>
  BY DEF Disconnect, NoChange, Seen, audio
<1>2. Translating(c) /\ ~req[c].gone /\ faults' \in 0..MaxFaults
  BY <1>t, FaultTyped DEF Disconnect
<1>3. /\ calm' \in BOOLEAN
      /\ calm' => calm /\ req[c].pc \in {"refresh", "refreshing", "snapshot"}
  <2>1. calm' = (calm /\ req[c].pc \in {"refresh", "refreshing", "snapshot"})
    BY DEF Disconnect
  <2> QED BY <2>1, Zenon
<1>4. /\ req' \in [Clients -> Requests] /\ Others(c)
      /\ \/ /\ req'[c].pc = req[c].pc /\ req'[c].kind = req[c].kind
            /\ req'[c].snap = req[c].snap /\ req'[c].was = req[c].was
            /\ Calling(c) \/ req[c].pc \in {"refresh", "refreshing"}
         \/ /\ req'[c].pc = "idle" /\ req'[c].kind = "none" /\ ~req'[c].gone
            /\ req[c].pc # "refreshing" /\ (req[c].pc = "snapshot" => req[c].kind = "start")
  <2>1. CASE /\ req' = [req EXCEPT ![c].gone = TRUE]
             /\ req[c].pc \in {"refresh", "refreshing", "start", "stop", "reconfigureStop",
                               "reconfigureStart"}
    <3> DEFINE new == [req[c] EXCEPT !.gone = TRUE]
    <3>1. /\ new \in Requests /\ new.pc = req[c].pc /\ new.kind = req[c].kind
          /\ new.snap = req[c].snap /\ new.was = req[c].was
      BY <1>t DEF Requests
    <3>2. req' = [req EXCEPT ![c] = new]
      BY <2>1
    <3> HIDE DEF new
    <3>3. /\ req' \in [Clients -> Requests] /\ Others(c) /\ req'[c] = new
      BY <1>t, <3>1, <3>2 DEF Others
    <3> QED BY <2>1, <3>1, <3>3 DEF Calling
  <2>2. CASE /\ Done(c)
             /\ \/ req[c].pc = "snapshot" /\ req[c].kind = "start"
                \/ req[c].pc \in {"setRunning", "clearRunning"}
    BY <1>t, <2>2, DoneMoves
  <2> QED BY <2>1, <2>2 DEF Disconnect, Pc
<1>5. ControlTypeOK'
  BY <1>t, <1>1, <1>2, <1>3, <1>4 DEF ControlTypeOK
<1>6. \A e \in Clients : RequestShape(e)'
  BY <1>1, <1>4 DEF ControlInv, RequestShape, Others, Calling
<1>7. RefreshShape' /\ Halting'
  BY <1>t, <1>1, <1>4 DEF RefreshShape, Halting, Others, Closed
<1>8. ASSUME down = "up" PROVE Knowledge'
  <2>1. ASSUME ~overlapped PROVE Fine(c)'
    <3>1. Fine(c)
      BY <1>2, <1>8, <2>1, OthersStandBy
    <3>2. Knows(c)'
      BY <1>1, <1>4, <3>1 DEF Fine, Knows
    <3>3. calm' => ~Calling(c)'
      BY <1>3, <1>4 DEF Calling
    <3>4. calm' => Truth' \/ Owes(req[c])'
      BY <1>1, <1>3, <1>4, <3>1 DEF Fine, Truth, Owes
    <3> QED BY <3>2, <3>3, <3>4 DEF Fine
  <2> QED BY <1>1, <1>2, <1>3, <1>4, <1>8, <2>1, DriverKeeps
<1> QED BY <1>1, <1>5, <1>6, <1>7, <1>8 DEF ControlInv

\* A request arrives: if it drives the translation, no other does, or they have met.
LEMMA ArriveInv ==
  ASSUME ControlInv, NEW c \in Clients, NEW kind \in Kinds, Arrive(c, kind) PROVE ControlInv'
<1>t. ControlTypeOK /\ req \in [Clients -> Requests]
  BY DEF ControlInv, ControlTypeOK
<1> DEFINE label == FirstStep[kind]
           new == [IdleRequest EXCEPT !.kind = kind, !.pc = label]
<1>1. /\ UNCHANGED <<store, stream, runtime, stopping, refresh, ticker, loops, applied, down, faults,
                     shown>>
      /\ ~Closed /\ requests' = c
  BY DEF Arrive, NoChange, audio
<1>2. /\ kind = "start" => label = "refresh"
      /\ kind = "stop" => label = "stop"
      /\ kind = "direction" => label = "was"
      /\ kind = "provider" => label = "provider"
      /\ kind = "mix" => label = "mix"
  BY DEF FirstStep
<1>3. label \in {"refresh", "stop", "was", "provider", "mix"}
  BY <1>2 DEF Kinds
<1>4. req' = [req EXCEPT ![c] = new]
  BY DEF Arrive
<1> HIDE DEF label
<1>5. new \in Requests /\ new.pc = label /\ new.kind = kind /\ new.gone \in BOOLEAN /\ ~new.gone
  BY <1>3 DEF IdleRequest, Requests, Steps
<1> HIDE DEF new
<1>6. /\ req' \in [Clients -> Requests] /\ Others(c) /\ req'[c].pc = label /\ req'[c].kind = kind
      /\ ~req'[c].gone
  BY <1>t, <1>4, <1>5 DEF Others
<1>7. /\ c = requests + 1 /\ requests \in Nat /\ c \in 0..MaxRequests /\ MaxRequests \in Nat
  BY <1>t, ControlAssumption DEF ControlAssumption, Arrive, ControlTypeOK, Clients
<1>8. req[c].kind = "none" /\ req[c].pc = "idle"
  BY <1>7 DEF ControlInv, RequestShape
<1>9. /\ overlapped' \in BOOLEAN /\ calm' \in BOOLEAN
      /\ kind \in Driving => (overlapped' <=> Meets) /\ (calm' <=> calm /\ ~Meets)
      /\ kind \notin Driving => (overlapped' <=> overlapped) /\ (calm' <=> calm)
  <2>1. CASE kind \in Driving
    <3>1. overlapped' = Meets /\ calm' = (calm /\ ~Meets)
      BY <2>1 DEF Arrive
    <3>2. Meets \in BOOLEAN
      BY Zenon DEF Meets
    <3> QED BY <2>1, <3>1, <3>2, Zenon
  <2>2. CASE kind \notin Driving
    BY <1>t, <2>2, Zenon DEF Arrive, SameCalm, ControlTypeOK
  <2> QED BY <2>1, <2>2
<1>10. ControlTypeOK'
  BY <1>t, <1>1, <1>6, <1>7, <1>9 DEF ControlTypeOK
<1>11. ASSUME NEW e \in Clients PROVE RequestShape(e)'
  <2>1. CASE e = c
    <3>1. ~(c > requests')
      BY <1>1, <1>7
    <3> QED BY <1>2, <1>3, <1>6, <2>1, <3>1 DEF RequestShape, Kinds
  <2>2. CASE e # c
    <3>1. e \in Nat /\ (e > requests' => e > requests)
      BY <1>1, <1>7 DEF Clients
    <3> QED BY <1>6, <2>2, <3>1 DEF ControlInv, RequestShape, Others, Calling
  <2> QED BY <2>1, <2>2
<1>12. RefreshShape' /\ Halting'
  BY <1>1, <1>6, <1>8 DEF ControlInv, RefreshShape, Halting, Others, Closed
<1>13. ASSUME down = "up" PROVE Knowledge'
  <2>1. \A e \in Clients \ {c} : /\ Translating(e)' <=> Translating(e)
                                 /\ Calling(e)' <=> Calling(e)
                                 /\ req'[e] = req[e]
    BY <1>6 DEF Others, Translating, Calling
  <2>2. ~Translating(c) /\ (Translating(c)' <=> kind \in Driving)
    BY <1>6, <1>8 DEF Translating, Driving
  <2>3. (Truth \/ \E e \in Clients : Owes(req[e])) => (Truth' \/ \E e \in Clients : Owes(req[e])')
    BY <1>1, <1>8, <2>1 DEF Truth, Owes
  <2>4. Knows(c)'
    BY <1>3, <1>6 DEF Knows
  <2>5. \A e \in Clients \ {c} : Knows(e) => Knows(e)'
    BY <1>1, <2>1 DEF Knows
  <2>6. \A e \in Clients : ~Translating(e) => Knows(e)
    BY DEF ControlInv, RequestShape, Knows, Translating, Driving
  <2>7. CASE kind \in Driving /\ Meets
    BY <1>9, <2>7 DEF Knowledge
  <2>8. CASE kind \in Driving /\ ~Meets
    <3>1. \A e \in Clients : ~Translating(e) /\ Knows(e)
      BY <2>6, <2>8 DEF Meets
    <3>2. Alone'
      BY <2>1, <3>1 DEF Alone
    <3>3. calm' => Truth' \/ \E e \in Clients : Owes(req[e])'
      BY <1>9, <1>13, <2>3, <2>8 DEF ControlInv, Knowledge
    <3>4. calm' => \A e \in Clients : req'[e].gone => ~Calling(e)'
      BY <1>6, <1>9, <1>13, <2>1, <2>8 DEF ControlInv, Knowledge
    <3> QED BY <1>9, <2>4, <2>5, <2>8, <3>1, <3>2, <3>3, <3>4 DEF Knowledge
  <2>9. CASE kind \notin Driving
    <3>1. Alone => Alone'
      BY <2>1, <2>2, <2>9 DEF Alone
    <3>2. calm' => Truth' \/ \E e \in Clients : Owes(req[e])'
      BY <1>9, <1>13, <2>3, <2>9 DEF ControlInv, Knowledge
    <3>3. calm' => \A e \in Clients : req'[e].gone => ~Calling(e)'
      BY <1>6, <1>9, <1>13, <2>1, <2>9 DEF ControlInv, Knowledge
    <3>4. calm' /\ overlapped' => \A e \in Clients : ~Translating(e)'
      BY <1>9, <1>13, <2>1, <2>2, <2>9 DEF ControlInv, Knowledge
    <3>5. ~overlapped' => Alone' /\ \A e \in Clients : Knows(e)'
      BY <1>9, <1>13, <2>4, <2>5, <2>9, <3>1 DEF ControlInv, Knowledge
    <3> QED BY <3>2, <3>3, <3>4, <3>5 DEF Knowledge
  <2> QED BY <2>7, <2>8, <2>9
<1> QED BY <1>1, <1>10, <1>11, <1>12, <1>13 DEF ControlInv

----------------------------------------------------------------------------
(* The watcher loop and the event streams.                                 *)

\* A step that leaves the runtime and the requests alone keeps the invariant if it keeps
\* the types and the shape of the refresh.
LEMMA BystanderKeeps ==
  ASSUME ControlInv, ControlTypeOK', RefreshShape',
         UNCHANGED <<runtime, stopping, req, down, requests, overlapped, calm, shown>>,
         store'.running = store.running, store'.cfg = store.cfg
  PROVE  ControlInv'
<1>1. \A c \in Clients : RequestShape(c)'
  BY DEF ControlInv, RequestShape, Calling
<1>2. down = "up" => Knowledge'
  BY HarmlessKeeps DEF Harmless
<1>3. Halting'
  BY DEF ControlInv, Halting
<1> QED BY <1>1, <1>2, <1>3 DEF ControlInv

\* An event stream sends what it has.
LEMMA SendInv == ASSUME ControlInv, NEW x \in Subscribers, Send(x) PROVE ControlInv'
<1>t. ControlTypeOK /\ RefreshShape /\ stream \in [Subscribers -> Streams]
  BY DEF ControlInv, ControlTypeOK
<1>1. UNCHANGED <<store, runtime, stopping, req, refresh, ticker, loops, applied, down, requests,
                  faults, overlapped, calm, shown>>
  BY DEF Send, audio, history
<1>2. PICK new \in Streams : stream' = [stream EXCEPT ![x] = new]
  <2>1. stream[x] \in Streams
    BY <1>t
  <2>2. stream[x].waiting \in 0..EventCapacity /\ EventCapacity \in Nat
    BY <2>1, ControlAssumption DEF Streams, ControlAssumption
  <2>3. CASE stream' = [stream EXCEPT ![x].resync = FALSE, ![x].current = TRUE]
    <3>1. [stream[x] EXCEPT !.resync = FALSE, !.current = TRUE] \in Streams
      BY <2>1 DEF Streams
    <3> QED BY <2>3, <3>1
  <2>4. CASE stream' = [stream EXCEPT ![x].lagged = FALSE, ![x].resync = TRUE]
    <3>1. [stream[x] EXCEPT !.lagged = FALSE, !.resync = TRUE] \in Streams
      BY <2>1 DEF Streams
    <3> QED BY <2>4, <3>1
  <2>5. CASE /\ stream[x].waiting > 0
             /\ stream' = [stream EXCEPT ![x].waiting = @ - 1, ![x].current = TRUE]
    <3>1. stream[x].waiting - 1 \in 0..EventCapacity
      BY <2>2, <2>5
    <3>2. [stream[x] EXCEPT !.waiting = @ - 1, !.current = TRUE] \in Streams
      BY <2>1, <3>1 DEF Streams
    <3> QED BY <2>5, <3>2
  <2> QED BY <2>3, <2>4, <2>5 DEF Send
<1>3. ControlTypeOK'
  BY <1>t, <1>1, <1>2 DEF ControlTypeOK
<1>4. RefreshShape'
  BY <1>t, <1>1 DEF RefreshShape, Closed
<1> QED BY <1>1, <1>3, <1>4, BystanderKeeps

\* What the loop applies is one of the volumes.
LEMMA TickInv == ASSUME ControlInv, Tick \/ TickRefresh \/ TickApply PROVE ControlInv'
<1>t. ControlTypeOK /\ RefreshShape
  BY DEF ControlInv
<1> DEFINE Tickers == [pc : {"idle", "wait", "refreshing", "apply"}, volume : {0, 100}]
           Refreshes == [pc : {"idle", "read", "requests", "ensure"}, by : 0..MaxRequests,
                         want : SUBSET Devices]
<1>0. ticker \in Tickers /\ refresh \in Refreshes
  BY <1>t DEF ControlTypeOK
<1>1. UNCHANGED <<store, stream, runtime, stopping, req, loops, down, requests, overlapped, calm, shown>>
  BY DEF Tick, TickRefresh, TickApply, NoChange, history
<1>2. CASE Tick
  <2>1. effective_audio_mix \in {0, 100}
    BY <1>t DEF effective_audio_mix, ControlTypeOK, Stores, Mixes
  <2>2. ticker' \in Tickers /\ UNCHANGED <<refresh, applied, faults>>
    BY <1>2, <2>1 DEF Tick
  <2>3. ControlTypeOK' /\ RefreshShape'
    BY <1>t, <1>1, <2>2 DEF ControlTypeOK, RefreshShape, Closed
  <2> QED BY <1>1, <2>3, BystanderKeeps
<1>3. CASE TickRefresh /\ Active
  <2>1. refresh' = [IdleRefresh EXCEPT !.pc = "read"] /\ ticker' = [ticker EXCEPT !.pc = "refreshing"]
    BY <1>3 DEF TickRefresh
  <2>2. refresh' = [pc |-> "read", by |-> 0, want |-> {}]
    BY <2>1 DEF IdleRefresh
  <2>3. 0 \in 0..MaxRequests /\ 0 \notin Clients
    BY ControlAssumption DEF ControlAssumption, Clients
  <2>4. refresh' \in Refreshes /\ refresh'.by \notin Clients
    BY <2>2, <2>3
  <2>5. ticker' \in Tickers
    BY <1>0, <2>1
  <2>6. UNCHANGED <<applied, faults>>
    BY <1>3 DEF TickRefresh
  <2>7. ControlTypeOK' /\ RefreshShape'
    BY <1>t, <1>1, <1>3, <2>4, <2>5, <2>6 DEF ControlTypeOK, RefreshShape, Closed, Active
  <2> QED BY <1>1, <2>7, BystanderKeeps
<1>4. CASE TickRefresh /\ ~Active
  <2>1. /\ ticker' = [ticker EXCEPT !.pc = "apply"] /\ UNCHANGED <<refresh, applied, faults>>
    BY <1>4 DEF TickRefresh
  <2>2. ticker' \in Tickers
    BY <1>0, <2>1
  <2>3. ControlTypeOK' /\ RefreshShape'
    BY <1>t, <1>1, <2>1, <2>2 DEF ControlTypeOK, RefreshShape, Closed
  <2> QED BY <1>1, <2>3, BystanderKeeps
<1>5. CASE TickApply
  <2>1. ticker' \in Tickers
    BY <1>5 DEF TickApply, IdleTicker
  <2>2. applied' \in {0, 100}
    BY <1>t, <1>0, <1>5 DEF TickApply, SetVolume, ControlTypeOK
  <2>3. faults' \in 0..MaxFaults /\ UNCHANGED refresh
    BY <1>t, <1>5, FaultTyped DEF TickApply, SetVolume
  <2>4. ControlTypeOK' /\ RefreshShape'
    BY <1>t, <1>1, <2>1, <2>2, <2>3 DEF ControlTypeOK, RefreshShape, Closed
  <2> QED BY <1>1, <2>4, BystanderKeeps
<1> QED BY <1>2, <1>3, <1>4, <1>5

\* The devices and the loopbacks that are wanted are read.
LEMMA ReadInv ==
  ASSUME ControlInv, ReadRequests \/ \E d \in Devices \cup {NoDevice} : ReadDevices(d)
  PROVE  ControlInv'
<1>t. ControlTypeOK /\ RefreshShape
  BY DEF ControlInv
<1> DEFINE Refreshes == [pc : {"idle", "read", "requests", "ensure"}, by : 0..MaxRequests,
                         want : SUBSET Devices]
<1>0. refresh \in Refreshes
  BY <1>t DEF ControlTypeOK
<1>1. UNCHANGED <<runtime, stopping, req, ticker, loops, applied, down, requests, overlapped, calm, shown>>
  BY DEF ReadRequests, ReadDevices, history
<1>2. CASE ReadRequests
  <2>1. /\ refresh.pc = "requests" /\ UNCHANGED <<store, stream, faults>>
        /\ refresh' = [refresh EXCEPT !.pc = "ensure", !.want = original_loopback_requests]
    BY <1>2 DEF ReadRequests, NoChange
  <2>2. original_loopback_requests \in SUBSET Devices
    BY <1>t DEF original_loopback_requests, ControlTypeOK, Stores
  <2>3. refresh' \in Refreshes /\ refresh'.pc = "ensure" /\ refresh'.by = refresh.by
    BY <1>0, <2>1, <2>2
  <2>4. ControlTypeOK' /\ RefreshShape'
    BY <1>t, <1>1, <2>1, <2>3 DEF ControlTypeOK, RefreshShape, Closed
  <2> QED BY <1>1, <2>1, <2>4, BystanderKeeps
<1>3. ASSUME NEW d \in Devices \cup {NoDevice}, ReadDevices(d) PROVE ControlInv'
  <2>1. refresh.pc = "read" /\ refresh' = [refresh EXCEPT !.pc = "requests"]
    BY <1>3 DEF ReadDevices
  <2>2. refresh' \in Refreshes /\ refresh'.pc = "requests" /\ refresh'.by = refresh.by
    BY <1>0, <2>1
  <2>3. faults' \in 0..MaxFaults
    BY <1>t, <1>3, FaultTyped DEF ReadDevices
  <2> DEFINE s == [store EXCEPT !.device = d]
  <2>4. s \in Stores /\ s.running = store.running /\ s.cfg = store.cfg
    BY <1>t DEF ControlTypeOK, Stores
  <2>5. NoChange \/ Change(s)
    BY <1>3 DEF ReadDevices
  <2> HIDE DEF s
  <2>6. /\ store' \in Stores /\ stream' \in [Subscribers -> Streams]
        /\ store'.running = store.running /\ store'.cfg = store.cfg
    <3>1. CASE NoChange
      BY <1>t, <3>1 DEF NoChange, ControlTypeOK
    <3>2. CASE Change(s)
      BY <1>t, <2>4, <3>2, ChangeTyped
    <3> QED BY <2>5, <3>1, <3>2
  <2>7. ControlTypeOK' /\ RefreshShape'
    BY <1>t, <1>1, <2>1, <2>2, <2>3, <2>6 DEF ControlTypeOK, RefreshShape, Closed
  <2> QED BY <1>1, <2>6, <2>7, BystanderKeeps
<1> QED BY <1>2, <1>3

\* The loopbacks are put in line, and whoever waited for the refresh goes on.
LEMMA EnsureInv == ASSUME ControlInv, EnsureLoopbacks PROVE ControlInv'
<1>t. ControlTypeOK /\ RefreshShape /\ req \in [Clients -> Requests]
  BY DEF ControlInv, ControlTypeOK
<1>1. UNCHANGED <<store, stream, runtime, stopping, applied, down, requests, overlapped, calm,
                  shown>>
  BY DEF EnsureLoopbacks, NoChange, history
<1>2. refresh.pc = "ensure" /\ faults' \in 0..MaxFaults
  BY <1>t, FaultTyped DEF EnsureLoopbacks
<1>3. loops' \subseteq Devices
  <2>1. loops \subseteq Devices /\ refresh.want \subseteq Devices
    BY <1>t DEF ControlTypeOK
  <2>2. \A l \in AfterCommand : l \subseteq Devices
    BY <2>1 DEF AfterCommand
  <2> QED BY <2>1, <2>2 DEF EnsureLoopbacks
<1>4. CASE UNCHANGED <<req, refresh, ticker>>
  <2>1. ControlTypeOK' /\ RefreshShape'
    BY <1>t, <1>1, <1>2, <1>3, <1>4 DEF ControlTypeOK, RefreshShape, Closed
  <2> QED BY <1>1, <1>4, <2>1, BystanderKeeps
<1>5. CASE RefreshFinished
  <2>1. refresh' = [pc |-> "idle", by |-> 0, want |-> {}]
    BY <1>5 DEF RefreshFinished, IdleRefresh
  <2>2. 0 \in 0..MaxRequests
    BY ControlAssumption DEF ControlAssumption
  <2>3. /\ refresh' \in [pc : {"idle", "read", "requests", "ensure"}, by : 0..MaxRequests,
                         want : SUBSET Devices]
        /\ refresh'.pc = "idle"
    BY <2>1, <2>2
  <2>4. RefreshShape'
    BY <2>3 DEF RefreshShape
  <2>5. CASE refresh.by \notin Clients
    <3>1. ticker' = [ticker EXCEPT !.pc = IF @ = "refreshing" THEN "apply" ELSE @] /\ req' = req
      BY <1>5, <2>5 DEF RefreshFinished
    <3>2. ticker' \in [pc : {"idle", "wait", "refreshing", "apply"}, volume : {0, 100}]
      BY <1>t, <3>1 DEF ControlTypeOK
    <3>3. ControlTypeOK'
      BY <1>t, <1>1, <1>2, <1>3, <2>3, <3>1, <3>2 DEF ControlTypeOK
    <3> QED BY <1>1, <2>4, <3>1, <3>3, BystanderKeeps
  <2>6. CASE refresh.by \in Clients
    <3> DEFINE c == refresh.by
               new == IF req[c].kind = "start" /\ ~req[c].gone
                      THEN [req[c] EXCEPT !.pc = "snapshot"] ELSE IdleRequest
    <3>1. req' = [req EXCEPT ![c] = new] /\ ticker' = ticker
      BY <1>5, <2>6 DEF RefreshFinished
    <3>2. req[c].pc = "refreshing" /\ req[c] \in Requests /\ RequestShape(c)
      BY <1>t, <1>2, <2>6 DEF RefreshShape, ControlInv
    <3>3. /\ new \in Requests /\ ~new.gone
          /\ \/ new.pc = "idle" /\ new.kind = "none"
             \/ new.pc = "snapshot" /\ new.kind = "start" /\ req[c].kind = "start"
      <4>1. CASE req[c].kind = "start" /\ ~req[c].gone
        BY <3>2, <4>1 DEF Requests, Steps
      <4>2. CASE ~(req[c].kind = "start" /\ ~req[c].gone)
        BY <4>2, IdleTyped
      <4> QED BY <4>1, <4>2
    <3> HIDE DEF new
    <3>4. req' \in [Clients -> Requests] /\ req'[c] = new /\ \A e \in Clients \ {c} : req'[e] = req[e]
      BY <1>t, <2>6, <3>1, <3>3
    <3>5. ControlTypeOK'
      BY <1>t, <1>1, <1>2, <1>3, <2>3, <3>1, <3>4 DEF ControlTypeOK
    <3>6. \A e \in Clients : RequestShape(e)'
      BY <1>1, <3>2, <3>3, <3>4 DEF ControlInv, RequestShape, Calling
    <3>7. \A e \in Clients : Harmless(e)
      BY <3>2, <3>3, <3>4 DEF Harmless, Owes, AtRest
    <3>8. down = "up" => Knowledge'
      BY <1>1, <3>7, HarmlessKeeps
    <3>9. Halting'
      BY <1>1 DEF ControlInv, Halting
    <3> QED BY <1>1, <2>4, <3>5, <3>6, <3>8, <3>9 DEF ControlInv
  <2> QED BY <2>5, <2>6
<1> QED BY <1>4, <1>5 DEF EnsureLoopbacks

----------------------------------------------------------------------------
(* The shutdown.                                                           *)

\* A step of the shutdown keeps the invariant if it keeps these parts of it.
LEMMA ShutdownKeeps ==
  ASSUME ControlInv, ControlTypeOK', RefreshShape', Halting', down' # "up",
         UNCHANGED <<req, requests>>
  PROVE  ControlInv'
<1>1. \A c \in Clients : RequestShape(c)'
  BY DEF ControlInv, RequestShape, Calling
<1> QED BY <1>1 DEF ControlInv

\* The daemon begins to stop: the gate is closed.
LEMMA BeginStoppingInv == ASSUME ControlInv, BeginStopping PROVE ControlInv'
<1>t. ControlTypeOK /\ RefreshShape /\ Halting
  BY DEF ControlInv
<1>1. /\ UNCHANGED <<store, stream, runtime, req, refresh, ticker, loops, applied, requests, faults,
                     overlapped, calm, shown>>
      /\ down = "up" /\ down' = "stopping" /\ stopping' = TRUE
  BY DEF BeginStopping, Shutdown, NoChange, audio, history
<1>2. ControlTypeOK' /\ RefreshShape' /\ Halting'
  BY <1>t, <1>1 DEF ControlTypeOK, RefreshShape, Halting, Closed
<1> QED BY <1>1, <1>2, ShutdownKeeps

\* A translation that the store says is running is taken out of the handle.
LEMMA StopTranslationInv == ASSUME ControlInv, StopTranslation PROVE ControlInv'
<1>t. ControlTypeOK /\ RefreshShape /\ Halting
  BY DEF ControlInv
<1>1. /\ UNCHANGED <<store, stream, stopping, req, refresh, ticker, loops, applied, requests,
                     overlapped, calm>>
      /\ down = "stopping" /\ down' = "stopped" /\ shown' = store.running
  BY DEF StopTranslation, Shutdown, NoChange, audio
<1>2. /\ store.running => runtime' = NoRuntime
      /\ ~store.running => runtime' = runtime
  BY DEF StopTranslation, StopRuntime
<1>3. faults' \in 0..MaxFaults /\ runtime' \in {NoRuntime} \cup Settings
  BY <1>t, <1>2, FaultTyped DEF StopTranslation, StopRuntime, ControlTypeOK
<1>4. shown' \in BOOLEAN
  BY <1>t, <1>1 DEF ControlTypeOK, Stores
<1>5. ControlTypeOK' /\ RefreshShape'
  BY <1>t, <1>1, <1>3, <1>4 DEF ControlTypeOK, RefreshShape, Closed
<1>6. Halting'
  BY <1>t, <1>1, <1>2 DEF Halting
<1> QED BY <1>1, <1>5, <1>6, ShutdownKeeps

\* The store is told that nothing runs any more.
LEMMA StopRunningInv == ASSUME ControlInv, StopRunning PROVE ControlInv'
<1>t. ControlTypeOK /\ RefreshShape /\ Halting
  BY DEF ControlInv
<1>1. /\ UNCHANGED <<runtime, stopping, req, refresh, ticker, loops, applied, requests, faults,
                     overlapped, calm, shown>>
      /\ down = "stopped" /\ down' = "cleared"
  BY DEF StopRunning, Shutdown, audio, history
<1> DEFINE s == [store EXCEPT !.running = FALSE]
<1>2. s \in Stores
  BY <1>t DEF ControlTypeOK, Stores
<1>3. Change(s)
  BY DEF StopRunning
<1>4. store' \in Stores /\ stream' \in [Subscribers -> Streams]
  BY <1>t, <1>2, <1>3, ChangeTyped
<1>5. ControlTypeOK' /\ RefreshShape' /\ Halting'
  BY <1>t, <1>1, <1>4 DEF ControlTypeOK, RefreshShape, Halting, Closed
<1> QED BY <1>1, <1>5, ShutdownKeeps

\* The routes are restored and the streams end.
LEMMA CloseEventsInv == ASSUME ControlInv, CloseEvents PROVE ControlInv'
<1>t. ControlTypeOK /\ RefreshShape /\ Halting
  BY DEF ControlInv
<1>1. /\ UNCHANGED <<store, runtime, stopping, req, refresh, ticker, loops, applied, requests,
                     faults, overlapped, calm, shown>>
      /\ down = "cleared" /\ down' = "draining" /\ refresh.pc = "idle"
  BY DEF CloseEvents, Shutdown, audio, history
<1>2. ClosedStream \in Streams
  BY ControlAssumption DEF ControlAssumption, ClosedStream, Streams
<1>3. stream' \in [Subscribers -> Streams]
  BY <1>2 DEF CloseEvents
<1>4. ControlTypeOK' /\ RefreshShape' /\ Halting'
  BY <1>t, <1>1, <1>3 DEF ControlTypeOK, RefreshShape, Halting, Closed
<1> QED BY <1>1, <1>4, ShutdownKeeps

\* The graph is taken down.
LEMMA CleanupGraphInv == ASSUME ControlInv, CleanupGraph PROVE ControlInv'
<1>t. ControlTypeOK /\ RefreshShape /\ Halting
  BY DEF ControlInv
<1>1. /\ UNCHANGED <<store, stream, runtime, stopping, req, refresh, ticker, applied, requests,
                     overlapped, calm, shown>>
      /\ down = "draining" /\ down' = "cleaned"
  BY DEF CleanupGraph, Shutdown, NoChange, history
<1>2. loops' \subseteq Devices /\ faults' \in 0..MaxFaults
  BY <1>t, FaultTyped DEF CleanupGraph, ControlTypeOK
<1>3. ControlTypeOK' /\ RefreshShape' /\ Halting'
  BY <1>t, <1>1, <1>2 DEF ControlTypeOK, RefreshShape, Halting, Closed
<1> QED BY <1>1, <1>3, ShutdownKeeps

----------------------------------------------------------------------------

\* The daemon starts with nothing running and every request idle.
LEMMA InitInv == ControlInit => ControlInv
<1> SUFFICES ASSUME ControlInit PROVE ControlInv
  OBVIOUS
<1>1. /\ MaxRequests \in Nat /\ MaxFaults \in Nat /\ EventCapacity \in Nat
      /\ (CHOOSE cfg \in Configs : TRUE) \in Configs /\ (CHOOSE d \in Devices : TRUE) \in Devices
  BY ControlAssumption DEF ControlAssumption
<1>2. store \in Stores /\ store.running \in BOOLEAN /\ ~store.running
  BY <1>1 DEF ControlInit, Stores, Providers, Mixes
<1>3. stream \in [Subscribers -> Streams]
  BY <1>1 DEF ControlInit, Streams
<1>4. /\ req \in [Clients -> Requests]
      /\ \A c \in Clients : req[c].pc = "idle" /\ req[c].kind = "none" /\ ~req[c].gone
  BY IdleTyped DEF ControlInit
<1>5. /\ refresh \in [pc : {"idle", "read", "requests", "ensure"}, by : 0..MaxRequests,
                      want : SUBSET Devices]
      /\ refresh.pc = "idle"
  BY <1>1 DEF ControlInit, IdleRefresh
<1>6. ticker \in [pc : {"idle", "wait", "refreshing", "apply"}, volume : {0, 100}]
  BY DEF ControlInit, IdleTicker
<1>a. requests \in 0..MaxRequests /\ faults \in 0..MaxFaults
  BY <1>1 DEF ControlInit
<1>b. /\ runtime = NoRuntime /\ loops = {} /\ applied = 0 /\ down = "up"
      /\ stopping \in BOOLEAN /\ overlapped \in BOOLEAN /\ calm \in BOOLEAN /\ shown \in BOOLEAN
      /\ ~shown
  BY DEF ControlInit
<1>7. ControlTypeOK
  BY <1>2, <1>3, <1>4, <1>5, <1>6, <1>a, <1>b DEF ControlTypeOK
<1>8. \A c \in Clients : RequestShape(c)
  BY <1>4 DEF RequestShape
<1>9. RefreshShape /\ Halting
  BY <1>5, <1>b DEF RefreshShape, Halting, Closed
<1>10. Alone /\ Truth /\ \A c \in Clients : ~Translating(c)
  BY <1>2, <1>4, <1>b DEF Alone, Truth, Translating, Driving
<1>11. \A c \in Clients : Knows(c)
  BY <1>4 DEF Knows
<1>12. Knowledge
  BY <1>4, <1>10, <1>11 DEF Knowledge
<1> QED BY <1>7, <1>8, <1>9, <1>12 DEF ControlInv

\* Every step of the control plane keeps the invariant.
LEMMA StepInv == ControlInv /\ [ControlNext]_controlVars => ControlInv'
<1> SUFFICES ASSUME ControlInv, [ControlNext]_controlVars PROVE ControlInv'
  OBVIOUS
<1>1. CASE \E c \in Clients, kind \in Kinds : Arrive(c, kind)
  BY <1>1, ArriveInv
<1>2. CASE \E c \in Clients : Handle(c) \/ Disconnect(c)
  BY <1>2, HandleInv, DisconnectInv
<1>3. CASE Watcher
  BY <1>3, TickInv, ReadInv, EnsureInv DEF Watcher
<1>4. CASE \E x \in Subscribers : Send(x)
  BY <1>4, SendInv
<1>5. CASE Terminate
  BY <1>5, BeginStoppingInv, StopTranslationInv, StopRunningInv, CloseEventsInv, CleanupGraphInv
  DEF Terminate
<1>6. CASE UNCHANGED controlVars
  <2>1. UNCHANGED <<store, runtime, stopping, req, refresh, ticker, loops, applied, stream, down,
                    requests, faults, overlapped, calm, shown>>
    BY <1>6 DEF controlVars
  <2>2. ControlTypeOK' /\ RefreshShape'
    BY <2>1 DEF ControlInv, ControlTypeOK, RefreshShape, Closed
  <2> QED BY <2>1, <2>2, BystanderKeeps
<1> QED BY <1>1, <1>2, <1>3, <1>4, <1>5, <1>6 DEF ControlNext

\* ControlInv holds in every reachable state, whatever the number of requests.
THEOREM ControlInvariant == ControlSpec => []ControlInv
  BY InitInv, StepInv, PTL DEF ControlSpec

\* The types hold, and no event stream has more events waiting than its channel holds.
THEOREM ControlTypeCorrect == ControlSpec => []ControlTypeOK
<1>1. ControlInv => ControlTypeOK
  BY DEF ControlInv
<1> QED BY <1>1, ControlInvariant, PTL

\* However requests that crossed, dropped handlers and failed stops have parted the store and
\* the runtime, a request that meets no other, is heard to its end and has its way puts the
\* store right, and no request parts them again without another such disturbance (api.rs:
\* start_translation, stop_translation, patch_direction, reconfigure).
THEOREM StoreComesRight == ControlSpec => []StoreIsPutRight
<1>1. ControlInv => StoreIsPutRight
  <2> SUFFICES ASSUME ControlInv, Settled, calm
               PROVE  /\ store.running = (runtime # NoRuntime)
                      /\ runtime # NoRuntime => runtime.cfg = store.cfg
    BY DEF StoreIsPutRight
  <2>1. down = "up" /\ \A c \in Clients : req[c].pc = "idle"
    BY DEF Settled, Pc
  <2>2. Truth
    BY <2>1 DEF ControlInv, Knowledge, Owes
  <2>3. store.running \in BOOLEAN
    BY DEF ControlInv, ControlTypeOK, Stores
  <2> QED BY <2>2, <2>3 DEF Truth
<1> QED BY <1>1, ControlInvariant, PTL

\* A translation that the store shows when the shutdown looks is told to stop, and whatever
\* requests are in flight, no other one is started (main.rs, the order of the shutdown: the
\* gate is closed first).
THEOREM ShownStaysStopped == ControlSpec => []ShownIsStopped
<1>1. ControlInv => ShownIsStopped
  BY DEF ControlInv, Halting, ShownIsStopped
<1> QED BY <1>1, ControlInvariant, PTL
============================================================================
