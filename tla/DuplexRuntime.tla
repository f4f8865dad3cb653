--------------------------- MODULE DuplexRuntime ---------------------------
(***************************************************************************)
(* The production runtime of the daemon (translation_runtime.rs): the      *)
(* handle the control API starts and stops (DuplexRuntimeHandle), the      *)
(* threads it spawns (ProcessActiveDuplex, run_process_duplex), their two  *)
(* direction tasks and the barrier between them (GenerationPolicyBarrier). *)
(*                                                                         *)
(* The gate is used through what it promises, AudioAdmission, which        *)
(* AudioOperationGate is shown to implement.  A direction is abstracted to *)
(* the utterances it has in progress and to how it ends; DirectionSession  *)
(* has its details.  The sidecar is abstracted to whether its process is   *)
(* alive; SidecarSupervisor has its details.                               *)
(*                                                                         *)
(* ProviderStreamClient::open, a send to the provider and a write to the   *)
(* playback device have no timeout.  A direction whose call never returns  *)
(* is stuck: it looks at no channel any more, and only an error of the     *)
(* call takes it out again.  A call that returns late is a delay.          *)
(***************************************************************************)
EXTENDS AudioAdmission, Naturals, FiniteSets

CONSTANTS Runtimes,       \* threads a handle may spawn, one for each start
          Directions,     \* the microphone and the speaker
          Duplex,         \* the handle, as a client of the gate
          None,           \* no runtime
          Bypass,         \* BypassActiveDuplex: nothing to translate, no thread
          MaxRestarts,    \* MAX_RUNTIME_RESTARTS
          MaxOpen         \* bound: utterances of each direction in progress at once

ASSUME DuplexAssumption ==
  /\ Duplex \in Holders
  /\ None \notin Runtimes /\ Bypass \notin Runtimes /\ None # Bypass
  /\ MaxRestarts \in Nat /\ MaxOpen \in [Directions -> Nat]
  /\ "none" \notin Directions /\ "stop" \notin Directions

VARIABLES active,    \* DuplexRuntimeHandle.active
          call,      \* what the holder of the handle's mutex waits for
          callee,    \* the runtime that call is about
          at,        \* where run_process_duplex is
          launched,  \* the directions of the launch that are enabled
          stop,      \* the stop channel of the thread
          ack,       \* the start acknowledgement
          sidecar,   \* the sidecar process is alive
          restarts,  \* restart_count: fault restarts of the thread
          loop,      \* each direction task: off, running, closing, exited
          exit,      \* how it ends, or will end once it has closed
          open,      \* utterances it has in progress
          busy,      \* the barrier's flag of the direction
          stuck,     \* the direction is in a call without a timeout that does not return
          differs,   \* the policy wants another mode than the direction has
          reopen,    \* the barrier's reopen_requested
          genStop,   \* the generation_stop channel
          first,     \* the direction whose end the thread saw first
          trouble,   \* history: a direction of this generation failed
          hung       \* history: its watchdog gave the sidecar process up

handleVars == <<operating, stopping, active, call, callee>>
directionVars == <<loop, exit, open, busy, stuck>>
generationVars == <<reopen, genStop, first, trouble, hung>>
threadVars == <<at, launched, stop, ack, sidecar, restarts>>
vars == <<handleVars, threadVars, directionVars, differs, generationVars>>

\* first = StopSeen: the thread saw the stop before any end of a direction.
StopSeen == "stop"

Alive(r) == at[r] \notin {"unborn", "done"}

Init ==
  /\ AInit
  /\ active = None /\ call = "idle" /\ callee = None
  /\ at = [r \in Runtimes |-> "unborn"]
  /\ launched = [r \in Runtimes |-> {}]
  /\ stop = [r \in Runtimes |-> FALSE]
  /\ ack = [r \in Runtimes |-> "none"]
  /\ sidecar = [r \in Runtimes |-> FALSE]
  /\ restarts = [r \in Runtimes |-> 0]
  /\ loop = [r \in Runtimes |-> [d \in Directions |-> "off"]]
  /\ exit = [r \in Runtimes |-> [d \in Directions |-> "none"]]
  /\ open = [r \in Runtimes |-> [d \in Directions |-> 0]]
  /\ busy = [r \in Runtimes |-> [d \in Directions |-> FALSE]]
  /\ stuck = [r \in Runtimes |-> [d \in Directions |-> FALSE]]
  /\ differs = [r \in Runtimes |-> [d \in Directions |-> FALSE]]
  /\ reopen = [r \in Runtimes |-> FALSE]
  /\ genStop = [r \in Runtimes |-> FALSE]
  /\ first = [r \in Runtimes |-> "none"]
  /\ trouble = [r \in Runtimes |-> FALSE]
  /\ hung = [r \in Runtimes |-> FALSE]

-----------------------------------------------------------------------------
(* The handle.  Its mutex is held from the call of start or stop to its    *)
(* return, so one call is in progress at a time.                           *)

\* start with no direction enabled: the lease is taken, no thread is spawned.
StartBypass ==
  /\ call = "idle" /\ active = None
  /\ Admit(Duplex)
  /\ active' = Bypass
  /\ UNCHANGED <<call, callee, threadVars, directionVars, differs, generationVars>>

\* start: the lease is taken and start_launch waits for the acknowledgement.
Start(r, ds) ==
  /\ call = "idle" /\ active = None
  /\ at[r] = "unborn" /\ ds # {}
  /\ Admit(Duplex)
  /\ call' = "starting" /\ callee' = r
  /\ at' = [at EXCEPT ![r] = "launching"]
  /\ launched' = [launched EXCEPT ![r] = ds]
  /\ UNCHANGED <<active, stop, ack, sidecar, restarts, directionVars, differs, generationVars>>

StartAcknowledged ==
  /\ call = "starting" /\ ack[callee] = "ok"
  /\ active' = callee
  /\ call' = "idle" /\ callee' = None
  /\ UNCHANGED <<operating, stopping, threadVars, directionVars, differs, generationVars>>

\* Mutant: the thread is joined without being told to stop.
StartRefusedSilently ==
  /\ call = "starting" /\ ack[callee] # "ok"
  /\ call' = "joining"
  /\ UNCHANGED <<operating, stopping, active, callee, threadVars, directionVars, differs,
                 generationVars>>

\* A refused or late start: the thread is told to stop and joined.
StartRefused ==
  /\ call = "starting" /\ ack[callee] # "ok"
  /\ call' = "joining"
  /\ stop' = [stop EXCEPT ![callee] = TRUE]
  /\ UNCHANGED <<operating, stopping, active, callee, at, launched, ack, sidecar, restarts,
                 directionVars, differs, generationVars>>

\* Mutant: the lease of a failed start is kept.
JoinedKeepingLease ==
  /\ call = "joining" /\ at[callee] = "done"
  /\ call' = "idle" /\ callee' = None
  /\ UNCHANGED <<operating, stopping, active, threadVars, directionVars, differs, generationVars>>

Joined ==
  /\ call = "joining" /\ at[callee] = "done"
  /\ Finish(Duplex)
  /\ call' = "idle" /\ callee' = None
  /\ UNCHANGED <<active, threadVars, directionVars, differs, generationVars>>

StopBypass ==
  /\ call = "idle" /\ active = Bypass
  /\ Finish(Duplex)
  /\ active' = None
  /\ UNCHANGED <<call, callee, threadVars, directionVars, differs, generationVars>>

\* Mutant: the stop is not sent.
StopCallSilently ==
  /\ call = "idle" /\ active \in Runtimes
  /\ active' = None
  /\ call' = "stopping" /\ callee' = active
  /\ UNCHANGED <<operating, stopping, threadVars, directionVars, differs, generationVars>>

\* stop_active takes the runtime out of the handle before it waits for it.
StopCall ==
  /\ call = "idle" /\ active \in Runtimes
  /\ active' = None
  /\ call' = "stopping" /\ callee' = active
  /\ stop' = [stop EXCEPT ![active] = TRUE]
  /\ UNCHANGED <<operating, stopping, at, launched, ack, sidecar, restarts,
                 directionVars, differs, generationVars>>

\* stop returns, with the runtime's result or because the wait timed out; either
\* way the ActiveProductionRuntime is dropped, and its lease with it.
StopReturns ==
  /\ call = "stopping" /\ at[callee] = "done"
  /\ Finish(Duplex)
  /\ call' = "idle" /\ callee' = None
  /\ UNCHANGED <<active, threadVars, directionVars, differs, generationVars>>

StopTimeout ==
  /\ call = "stopping" /\ at[callee] # "done"
  /\ Finish(Duplex)
  /\ call' = "idle" /\ callee' = None
  /\ UNCHANGED <<active, threadVars, directionVars, differs, generationVars>>

\* The other clients of the gate, and the daemon that begins to stop.
OtherClient ==
  /\ \/ \E h \in Holders \ {Duplex} : Admit(h) \/ Finish(h)
     \/ Stop
  /\ UNCHANGED <<active, call, callee, threadVars, directionVars, differs, generationVars>>

-----------------------------------------------------------------------------
(* The thread outside of a generation.                                     *)

\* The thread returns: the channels close, and the supervisor is shut down or
\* dropped, which ends its process.
End(r) ==
  /\ at' = [at EXCEPT ![r] = "done"]
  /\ sidecar' = [sidecar EXCEPT ![r] = FALSE]
  /\ UNCHANGED <<handleVars, launched, stop, restarts, directionVars, differs, generationVars>>

\* supervisor.start or wait_provider_ready fails at the first launch.
LaunchFails(r) ==
  /\ at[r] = "launching"
  /\ ack' = [ack EXCEPT ![r] = "err"]
  /\ End(r)

LaunchReady(r) ==
  /\ at[r] = "launching"
  /\ at' = [at EXCEPT ![r] = "top"]
  /\ sidecar' = [sidecar EXCEPT ![r] = TRUE]
  /\ UNCHANGED <<handleVars, launched, stop, ack, restarts, directionVars, differs, generationVars>>

\* The top of the loop looks at the stop channel; nobody is told.
StopAtTop(r) ==
  /\ at[r] = "top" /\ stop[r]
  /\ UNCHANGED ack
  /\ End(r)

Prepare(r) ==
  /\ at[r] = "top" /\ ~stop[r]
  /\ at' = [at EXCEPT ![r] = "preparing"]
  /\ UNCHANGED <<handleVars, launched, stop, ack, sidecar, restarts, directionVars, differs,
                 generationVars>>

\* The streams of the directions are open, or refused.
OpensReturned(r) == at[r] = "preparing" /\ \A d \in launched[r] : ~stuck[r][d]

\* A direction cannot be opened; the start, if it still waits, is refused.
PrepareFails(r) ==
  /\ OpensReturned(r)
  /\ ack' = [ack EXCEPT ![r] = IF @ = "none" THEN "err" ELSE @]
  /\ End(r)

\* register_session finds the process dead: the thread returns without a word.
RegisterFails(r) ==
  /\ OpensReturned(r) /\ ~sidecar[r]
  /\ UNCHANGED ack
  /\ End(r)

\* A new generation: fresh barrier and channel, and the directions run.
Prepared(r) ==
  /\ OpensReturned(r) /\ sidecar[r]
  /\ at' = [at EXCEPT ![r] = "running"]
  /\ ack' = [ack EXCEPT ![r] = IF @ = "none" THEN "ok" ELSE @]
  /\ loop' = [loop EXCEPT ![r] = [d \in Directions |-> IF d \in launched[r] THEN "running" ELSE "off"]]
  /\ exit' = [exit EXCEPT ![r] = [d \in Directions |-> "none"]]
  /\ open' = [open EXCEPT ![r] = [d \in Directions |-> 0]]
  /\ busy' = [busy EXCEPT ![r] = [d \in Directions |-> FALSE]]
  /\ reopen' = [reopen EXCEPT ![r] = FALSE]
  /\ genStop' = [genStop EXCEPT ![r] = FALSE]
  /\ first' = [first EXCEPT ![r] = "none"]
  /\ trouble' = [trouble EXCEPT ![r] = FALSE]
  /\ UNCHANGED <<handleVars, launched, stop, sidecar, restarts, stuck, differs, hung>>

\* The sidecar process dies.
SidecarCrash(r) ==
  /\ sidecar[r]
  /\ sidecar' = [sidecar EXCEPT ![r] = FALSE]
  /\ UNCHANGED <<handleVars, at, launched, stop, ack, restarts, directionVars, differs, generationVars>>

\* The latency policy changes the mode that is wanted for a direction.
ChangeMode(r, d) ==
  /\ Alive(r) /\ d \in launched[r]
  /\ differs' = [differs EXCEPT ![r][d] = ~@]
  /\ UNCHANGED <<handleVars, threadVars, directionVars, generationVars>>

-----------------------------------------------------------------------------
(* A direction.  The directions and the thread are one task, so what       *)
(* happens between two awaits is one step.  The select of run_direction is *)
(* biased: a stop comes before anything else that is ready.                *)

\* A send or a write of the direction does not return, or the open of the one that is
\* being opened.
Hang(r, d) ==
  /\ \/ OpensReturned(r)
     \/ at[r] = "running" /\ loop[r][d] \in {"running", "closing"} /\ ~stuck[r][d]
  /\ stuck' = [stuck EXCEPT ![r][d] = TRUE]
  /\ UNCHANGED <<handleVars, threadVars, loop, exit, open, busy, differs, generationVars>>

\* A call that hangs fails when the process dies.
HungCallBreaks(r, d) ==
  /\ stuck[r][d] /\ ~sidecar[r]
  /\ stuck' = [stuck EXCEPT ![r][d] = FALSE]
  /\ UNCHANGED <<handleVars, threadVars, loop, exit, open, busy, differs, generationVars>>

Runs(r, d) == loop[r][d] = "running" /\ ~stuck[r][d]

Listens(r, d) == Runs(r, d) /\ ~stop[r] /\ ~genStop[r]

SpeechStarted(r, d) ==
  /\ Listens(r, d) /\ open[r][d] < MaxOpen[d]
  /\ open' = [open EXCEPT ![r][d] = @ + 1]
  /\ busy' = [busy EXCEPT ![r][d] = TRUE]
  /\ UNCHANGED <<handleVars, threadVars, loop, exit, stuck, differs, generationVars>>

\* Mutant: only a direction whose own mode changed closes for a reopen.
OwnModeOnly(r, d) == differs[r][d]

\* A terminal event: the direction closes when it, or its peer before it, asked
\* for another mode.
ClosesForPolicy(r, d) == reopen[r] \/ differs[r][d]

FlagAfterTerminal(r, d) == FALSE

UtteranceTerminal(r, d) ==
  /\ Listens(r, d) /\ open[r][d] > 0
  /\ open' = [open EXCEPT ![r][d] = @ - 1]
  /\ busy' = [busy EXCEPT ![r][d] = FlagAfterTerminal(r, d)]
  /\ reopen' = [reopen EXCEPT ![r] = @ \/ differs[r][d]]
  /\ loop' = [loop EXCEPT ![r][d] = IF ClosesForPolicy(r, d) THEN "closing" ELSE @]
  /\ exit' = [exit EXCEPT ![r][d] = IF ClosesForPolicy(r, d) THEN "ModeChanged" ELSE @]
  /\ UNCHANGED <<handleVars, threadVars, stuck, differs, genStop, first, trouble, hung>>

\* close_direction: the close request is sent.
Closes(r, d, how) ==
  /\ loop' = [loop EXCEPT ![r][d] = "closing"]
  /\ exit' = [exit EXCEPT ![r][d] = how]
  /\ UNCHANGED <<handleVars, threadVars, open, busy, stuck, differs, generationVars>>

\* Mutant: a direction with an utterance in progress does not stop.
StopNoticedWhenIdle(r, d) ==
  Runs(r, d) /\ stop[r] /\ open[r][d] = 0 /\ Closes(r, d, "Stopped")

StopNoticed(r, d) == Runs(r, d) /\ stop[r] /\ Closes(r, d, "Stopped")

GenerationStopNoticed(r, d) ==
  Runs(r, d) /\ ~stop[r] /\ genStop[r] /\ Closes(r, d, "RestartRequired")

Peers(r, d) == launched[r] \ {d}

should_wait_for_policy_peer(r, d, how) ==
  how = "ModeChanged" /\ \E p \in Peers(r, d) : busy[r][p]

\* run_direction returns.  If it is the first to return, the thread tells the peer
\* to stop, unless the end is a policy reopen and the peer is active.
Returns(r, d, how) ==
  /\ loop' = [loop EXCEPT ![r][d] = "exited"]
  /\ exit' = [exit EXCEPT ![r][d] = how]
  /\ stuck' = [stuck EXCEPT ![r][d] = FALSE]
  /\ first' = [first EXCEPT ![r] = IF @ = "none" THEN d ELSE @]
  /\ genStop' = [genStop EXCEPT ![r] =
                   @ \/ (first[r] = "none" /\ ~should_wait_for_policy_peer(r, d, how))]
  /\ UNCHANGED <<handleVars, threadVars, open, busy, differs, reopen>>

\* The close is sent and acknowledged, or its outcome does not matter any more.
Closed(r, d) ==
  /\ loop[r][d] = "closing" /\ ~stuck[r][d]
  /\ Returns(r, d, exit[r][d])
  /\ UNCHANGED <<trouble, hung>>

CloseFails(r, d) ==
  /\ loop[r][d] = "closing" /\ ~stuck[r][d] /\ exit[r][d] # "Stopped"
  /\ Returns(r, d, "Error")
  /\ trouble' = [trouble EXCEPT ![r] = TRUE]
  /\ UNCHANGED hung

\* A stage of the direction fails: a send, an event, the capture, the playback.
Fails(r, d) ==
  /\ loop[r][d] = "running"
  /\ Returns(r, d, "Error")
  /\ trouble' = [trouble EXCEPT ![r] = TRUE]
  /\ UNCHANGED hung

\* The watchdog's last resort, DirectionWatchdogEffect::RestartSidecar.
WatchdogRestart(r, d) ==
  /\ Listens(r, d)
  /\ Returns(r, d, "RestartRequired")
  /\ trouble' = [trouble EXCEPT ![r] = TRUE]
  /\ hung' = [hung EXCEPT ![r] = TRUE]

-----------------------------------------------------------------------------
(* The end of a generation.                                                *)

\* The thread sees the stop before any direction has returned.
StopFirst(r) ==
  /\ at[r] = "running" /\ stop[r] /\ first[r] = "none"
  /\ first' = [first EXCEPT ![r] = StopSeen]
  /\ genStop' = [genStop EXCEPT ![r] = TRUE]
  /\ UNCHANGED <<handleVars, threadVars, directionVars, differs, reopen, trouble, hung>>

GenerationOver(r) ==
  /\ at[r] = "running" /\ first[r] # "none"
  /\ \A d \in launched[r] : loop[r][d] = "exited"

\* Mutant: a peer that was told to stop counts as a failure.
PeerMustWantItToo(r) ==
  /\ exit[r][first[r]] = "ModeChanged"
  /\ \A p \in Peers(r, first[r]) : exit[r][p] = "ModeChanged"

classify_generation_restart(r) ==
  /\ exit[r][first[r]] = "ModeChanged"
  /\ \A p \in Peers(r, first[r]) : exit[r][p] \in {"RestartRequired", "ModeChanged"}

EndStopped(r) ==
  /\ GenerationOver(r) /\ stop[r]
  /\ UNCHANGED ack
  /\ End(r)

\* A policy reopen keeps the process: sessions are closed, modes refreshed.
PolicyReopen(r) ==
  /\ GenerationOver(r) /\ ~stop[r] /\ classify_generation_restart(r) /\ sidecar[r]
  /\ at' = [at EXCEPT ![r] = "top"]
  /\ differs' = [differs EXCEPT ![r] = [d \in Directions |-> IF d \in launched[r] THEN FALSE ELSE @[d]]]
  /\ UNCHANGED <<handleVars, launched, stop, ack, sidecar, restarts, directionVars, generationVars>>

\* close_session asks for readiness, which a dead process has lost.
ReadyToClose(r) == sidecar[r]

\* register_generation_restart: the budget of fault restarts is never refilled.
RestartsLeft(r) == restarts[r] < MaxRestarts

\* A fault restart: close_session waits in vain, then kills and reaps the process.
FaultRestart(r) ==
  /\ GenerationOver(r) /\ ~stop[r] /\ ~classify_generation_restart(r)
  /\ RestartsLeft(r) /\ ReadyToClose(r)
  /\ at' = [at EXCEPT ![r] = "restarting"]
  /\ restarts' = [restarts EXCEPT ![r] = @ + 1]
  /\ sidecar' = [sidecar EXCEPT ![r] = FALSE]
  /\ UNCHANGED <<handleVars, launched, stop, ack, directionVars, differs, generationVars>>

\* No restart is left, or the process is dead: the runtime gives up.
GiveUp(r) ==
  /\ GenerationOver(r) /\ ~stop[r]
  /\ ~ReadyToClose(r) \/ (~classify_generation_restart(r) /\ ~RestartsLeft(r))
  /\ UNCHANGED ack
  /\ End(r)

\* supervisor.start and wait_provider_ready of the new process; the stop channel is
\* not looked at meanwhile.
RestartReady(r) ==
  /\ at[r] = "restarting"
  /\ at' = [at EXCEPT ![r] = "top"]
  /\ sidecar' = [sidecar EXCEPT ![r] = TRUE]
  /\ hung' = [hung EXCEPT ![r] = FALSE]
  /\ UNCHANGED <<handleVars, launched, stop, ack, restarts, directionVars, differs, reopen, genStop,
                 first, trouble>>

RestartFails(r) ==
  /\ at[r] = "restarting"
  /\ UNCHANGED ack
  /\ End(r)

-----------------------------------------------------------------------------
ThreadStep(r) ==
  \/ LaunchFails(r) \/ LaunchReady(r) \/ StopAtTop(r) \/ Prepare(r)
  \/ PrepareFails(r) \/ RegisterFails(r) \/ Prepared(r)
  \/ StopFirst(r) \/ EndStopped(r) \/ PolicyReopen(r) \/ FaultRestart(r) \/ GiveUp(r)
  \/ RestartReady(r) \/ RestartFails(r)

DirectionStep(r, d) ==
  \/ StopNoticed(r, d) \/ GenerationStopNoticed(r, d) \/ Closed(r, d) \/ CloseFails(r, d)

HandleReturns == StartAcknowledged \/ StartRefused \/ Joined \/ StopReturns \/ StopTimeout

Next ==
  \/ StartBypass \/ StopBypass \/ StopCall \/ HandleReturns \/ OtherClient
  \/ \E r \in Runtimes :
       \/ \E ds \in SUBSET Directions : Start(r, ds)
       \/ ThreadStep(r) \/ SidecarCrash(r)
       \/ \E d \in launched[r] :
            \/ ChangeMode(r, d) \/ SpeechStarted(r, d) \/ UtteranceTerminal(r, d)
            \/ DirectionStep(r, d) \/ Fails(r, d) \/ WatchdogRestart(r, d)
            \/ Hang(r, d) \/ HungCallBreaks(r, d)

Spec == Init /\ [][Next]_vars

\* The threads and the direction tasks are scheduled, and their calls return unless they
\* are stuck.  An utterance gets its terminal event (DirectionSession), and the streams
\* of a dead process break.
Fairness ==
  /\ WF_vars(HandleReturns)
  /\ \A r \in Runtimes :
       /\ WF_vars(ThreadStep(r))
       /\ \A d \in Directions :
            /\ WF_vars(DirectionStep(r, d))
            /\ WF_vars(UtteranceTerminal(r, d))
            /\ WF_vars(~sidecar[r] /\ ~stuck[r][d] /\ Fails(r, d))

FairSpec == Spec /\ Fairness

-----------------------------------------------------------------------------
(* Properties.                                                             *)

\* Type invariant; the fault restarts of a runtime never exceed the budget.
DuplexTypeOK ==
  /\ operating \subseteq Holders /\ stopping \in BOOLEAN
  /\ active \in Runtimes \cup {None, Bypass}
  /\ call \in {"idle", "starting", "joining", "stopping"}
  /\ callee \in Runtimes \cup {None}
  /\ at \in [Runtimes -> {"unborn", "launching", "top", "preparing", "running", "restarting", "done"}]
  /\ launched \in [Runtimes -> SUBSET Directions]
  /\ stop \in [Runtimes -> BOOLEAN]
  /\ ack \in [Runtimes -> {"none", "ok", "err"}]
  /\ sidecar \in [Runtimes -> BOOLEAN]
  /\ restarts \in [Runtimes -> 0..MaxRestarts]
  /\ loop \in [Runtimes -> [Directions -> {"off", "running", "closing", "exited"}]]
  /\ exit \in [Runtimes -> [Directions ->
                 {"none", "Stopped", "RestartRequired", "ModeChanged", "Error"}]]
  /\ open \in [Runtimes -> [Directions -> Nat]]
  /\ busy \in [Runtimes -> [Directions -> BOOLEAN]]
  /\ stuck \in [Runtimes -> [Directions -> BOOLEAN]]
  /\ differs \in [Runtimes -> [Directions -> BOOLEAN]]
  /\ reopen \in [Runtimes -> BOOLEAN]
  /\ genStop \in [Runtimes -> BOOLEAN]
  /\ first \in [Runtimes -> Directions \cup {"none", StopSeen}]
  /\ trouble \in [Runtimes -> BOOLEAN]
  /\ hung \in [Runtimes -> BOOLEAN]

\* The handle holds the production lease exactly while it has a runtime or a call of
\* start or stop is in progress: no failed start or stop leaks the audio operation
\* (ActiveProductionRuntime owns the lease, DuplexRuntimeHandle::start and stop).
LeaseFollowsHandle == Duplex \in operating <=> (active # None \/ call # "idle")

\* A thread that is alive belongs to the handle or to a call in progress, or it has
\* been told to stop: no runtime runs on with nobody able to stop it
\* (ProcessActiveDuplex::stop, its Drop, and the error paths of start_launch).
OrphansAreStopping ==
  \A r \in Runtimes :
    Alive(r) => active = r \/ (call # "idle" /\ callee = r) \/ stop[r]

\* A policy reopen never uses up the budget of fault restarts: a restart is counted
\* only if a direction of the generation failed (classify_generation_restart).
PolicyReopenIsFree ==
  [][\A r \in Runtimes : restarts'[r] > restarts[r] => trouble[r]]_vars

\* When a direction has closed for a policy reopen, its peer is told to stop only if
\* the peer has no utterance in progress (should_wait_for_policy_peer).
PolicyWaitsForActivePeer ==
  [][\A r \in Runtimes :
       (/\ ~genStop[r] /\ genStop'[r]
        /\ first'[r] \in launched[r] /\ exit'[r][first'[r]] = "ModeChanged")
       => \A p \in Peers(r, first'[r]) : loop[r][p] = "running" => open[r][p] = 0]_vars

\* One runtime thread at a time (translation_controller_is_single_flight).
SingleFlight == Cardinality({r \in Runtimes : Alive(r)}) <= 1

\* Once the watchdog of a direction has given the sidecar process up, no generation
\* starts on that process (DirectionWatchdogEffect::RestartSidecar).
HungSidecarIsReplaced ==
  [][\A r \in Runtimes : at[r] = "preparing" /\ at'[r] = "running" => ~hung[r]]_vars

\* A direction of the runtime does not come back from a call without a timeout.
Stuck(r) == \E d \in Directions : stuck[r][d]

\* A runtime that was told to stop ends, also when the stop had timed out or came in
\* the middle of a launch, a restart or a close; and so does a runtime whose sidecar
\* process died under a generation, because close_session refuses a supervisor that is
\* not ready and the restart is not tried.  Only a direction that is stuck in an
\* open, a send or a write keeps it.
RuntimeEnds ==
  \A r \in Runtimes :
    (stop[r] \/ (at[r] = "running" /\ ~sidecar[r])) ~> (at[r] = "done" \/ Stuck(r))

\* Every stop returns, and every start: a start whose acknowledgement was late is not
\* stuck in the join of a thread that has meanwhile become ready (start_launch).  The
\* join has no timeout, so the one call that may stay is a failed start whose thread is
\* stuck in a call that has none either.
CallsReturn ==
  call # "idle" ~> (call = "idle" \/ (call = "joining" /\ Stuck(callee)))

\* When a direction has closed for a policy reopen the generation ends: the peer that is
\* waited for closes too, although its own mode may be the right one, unless it is stuck
\* for good in a call without a timeout.
BarrierReleases ==
  \A r \in Runtimes :
    (at[r] = "running" /\ first[r] \in Directions /\ exit[r][first[r]] = "ModeChanged")
      ~> (at[r] # "running" \/ Stuck(r))

=============================================================================
