------------------------------ MODULE RoundTrip ------------------------------
(***************************************************************************)
(* The human round-trip self test (round_trip.rs, round_trip_runtime.rs,   *)
(* round_trip_process.rs) with the audio operation gate it shares with the *)
(* translation and manual routes.                                          *)
(*                                                                         *)
(* Three parties change the state of a session: the controller behind the  *)
(* API (start and stop, one at a time under a mutex), the worker thread    *)
(* that takes the test through its stages and tears it down, and the       *)
(* observer that the duplex runtime calls from its own threads.            *)
(***************************************************************************)
EXTENDS AudioOperationGate, FiniteSetsExt, Sequences

CONSTANTS
    SelfTest,     \* the holder of the gate that stands for the self test
    NoSession,    \* no session yet
    MaxFailures   \* failing steps in a behaviour, bounds the model

ASSUME RoundTripAssumption ==
    SelfTest \in Holders /\ NoSession \notin Sessions /\ MaxFailures \in Nat

VARIABLES
    session,   \* RoundTripSelfTest.session: its id, checkpoint and exact PCM proof
    active,    \* RoundTripRuntimeHandle.active: "none", "live", or "failed" once the thread
               \* was joined with an error
    call,      \* the controller call that holds the mutex of active: "none" or "stop"
    stop,      \* the stop signal to the thread
    thread,    \* the step the worker thread has reached, whether its teardown failed so
               \* far, and its result
    seen,      \* ObserverState
    duplex,    \* the duplex runtime of the test: "none", "running" or "orphan"
    audio,     \* the worker and its capture process exist
    peer,      \* the virtual peer's stream: "none", "spawned", "routed", or "ghost" when its
               \* process has ended and the sound server still lists it
    capability, \* RoundTripResources.capability is set
    used, failures

testVars == <<session, active, call, stop, thread, seen, duplex, audio, peer, capability, used,
              failures>>
roundTripVars == <<gateVars, testVars>>
resources == <<duplex, audio, peer, capability>>

----------------------------------------------------------------------------
(* The session.                                                            *)

CHECKPOINTS == <<"WaitingForSpeech", "OutgoingVad", "OutgoingAsrFinal", "OutgoingTranslationFinal",
                 "EnglishFirstAudio", "VirtualPeerReinjecting", "IncomingAsrFinal",
                 "IncomingTranslationFinal", "RussianFirstAudio", "Completed">>
IndexOf(c) == CHOOSE i \in 1..Len(CHECKPOINTS) : CHECKPOINTS[i] = c
is_terminal(c) == c \in {"Completed", "Failed", "Stopped"}

Idling == [id |-> NoSession, checkpoint |-> "Stopped", proof |-> FALSE]
NewSession(s) == [id |-> s, checkpoint |-> "WaitingForSpeech", proof |-> FALSE]

\* active_session_mut: only the session of this id, and only before its end.
IsActive(id) == session.id = id /\ ~is_terminal(session.checkpoint)

\* RoundTripSelfTest::fail and stop change nothing after the end of the session.
Failed(id) == IF IsActive(id) THEN [session EXCEPT !.checkpoint = "Failed"] ELSE session
Stopped(id) == IF IsActive(id) THEN [session EXCEPT !.checkpoint = "Stopped"] ELSE session

Fail(id) == session' = Failed(id)

----------------------------------------------------------------------------
(* The observer.                                                           *)

Blind == [id |-> NoSession, checkpoint |-> "WaitingForSpeech", incoming_enabled |-> FALSE,
          out |-> {}, in |-> {}, outgoing_terminal |-> FALSE]

\* What the flags of a direction allow the test to pass.
DrainGuard(o, c) ==
    CASE c = "OutgoingVad" -> "transcript" \in o.out
      [] c = "OutgoingAsrFinal" -> "translation" \in o.out
      [] c = "OutgoingTranslationFinal" -> "audio" \in o.out
      [] c = "VirtualPeerReinjecting" -> "transcript" \in o.in
      [] c = "IncomingAsrFinal" -> "translation" \in o.in
      [] c = "IncomingTranslationFinal" -> "audio" \in o.in
      [] OTHER -> FALSE

\* drain_locked: as far as the flags allow, in one call.
drain_locked(o) ==
    IF o.checkpoint = "Failed" THEN "Failed"
    ELSE LET i == IndexOf(o.checkpoint)
         IN  CHECKPOINTS[Max({k \in i..Len(CHECKPOINTS) :
                                \A j \in i..(k - 1) : DrainGuard(o, CHECKPOINTS[j])})]

\* The observer has its new flags and drains; progress.advance refuses a session that is over.
Observed(o) ==
    LET c == IF IsActive(o.id) THEN drain_locked(o) ELSE o.checkpoint
    IN  /\ seen' = [o EXCEPT !.checkpoint = c]
        /\ session' = IF IsActive(o.id) THEN [session EXCEPT !.checkpoint = c] ELSE session

\* The flags of one direction after an event of its utterance: a completed utterance that has
\* been heard stands for its texts, which a private session does not report.
Flags(flags, event) ==
    LET new == flags \cup {event}
    IN  IF {"audio", "completed"} \subseteq new THEN new \cup {"transcript", "translation"}
        ELSE new

\* The duplex runtime reports events of the utterance it is in; a second utterance only counts
\* as recursion.  An outcome is followed by the end of the utterance.
CanReport(flags, event) ==
    /\ event \notin flags /\ "terminal" \notin flags
    /\ event # "started" => "started" \in flags
    /\ event = "terminal" => flags \cap {"completed", "dropped"} # {}
    /\ event \in {"completed", "dropped"} => flags \cap {"completed", "dropped"} = {}

\* fail_locked: only a session that is not over fails, and the capture is woken.
FailLocked(o) ==
    IF IsActive(o.id)
    THEN /\ seen' = [o EXCEPT !.checkpoint = "Failed", !.outgoing_terminal = TRUE]
         /\ Fail(o.id)
    ELSE seen' = o /\ UNCHANGED session

ObserveMicrophone(event) ==
    LET o == [seen EXCEPT !.out = Flags(@, event),
                          !.outgoing_terminal = @ \/ event = "terminal",
                          !.checkpoint = IF event = "started" /\ @ = "WaitingForSpeech"
                                            /\ IsActive(seen.id)
                                         THEN "OutgoingVad" ELSE @]
    IN  /\ duplex # "none" /\ CanReport(seen.out, event)
        /\ IF event = "dropped" THEN FailLocked(o) ELSE Observed(o)
        /\ UNCHANGED <<gateVars, active, call, stop, thread, resources, used, failures>>

\* Nothing of the speaker direction counts before the virtual peer is about to speak.
ObserveSpeaker(event) ==
    LET o == [seen EXCEPT !.in = Flags(@, event)]
    IN  /\ duplex # "none" /\ seen.incoming_enabled /\ CanReport(seen.in, event)
        /\ IF event = "dropped" THEN FailLocked(o) ELSE Observed(o)
        /\ UNCHANGED <<gateVars, active, call, stop, thread, resources, used, failures>>

Events == {"started", "transcript", "translation", "audio", "completed", "dropped", "terminal"}

----------------------------------------------------------------------------
(* The controller.                                                         *)

Ended == thread.pc \in {"ended", "aborted"}

\* Mutant: a finished runtime is forgotten whatever its teardown came to.
ReapedAnyway == IF active # "none" /\ Ended THEN "none" ELSE active

\* reap_finished: a thread that ended is joined, and forgotten if it ended well.
Reaped == IF active = "live" /\ Ended
          THEN IF thread.result = "ok" THEN "none" ELSE "failed"
          ELSE active

Idle0 == [pc |-> "none", failed |-> FALSE, result |-> "none"]

\* start up to the session: it is refused while one is active or not over, or when a
\* precondition does not hold.
CanStart == call = "none" /\ Reaped = "none" /\ is_terminal(session.checkpoint) /\ used # Sessions

\* Uuid::new_v4.
Fresh == CHOOSE s \in Sessions : s \notin used

StartRefused ==
    /\ call = "none" /\ Reaped # active
    /\ active' = Reaped
    /\ UNCHANGED <<gateVars, session, call, stop, thread, seen, resources, used, failures>>

Start(s) ==
    /\ CanStart /\ s = Fresh
    /\ AcquireHumanRoundTrip(SelfTest, s)
    /\ session' = NewSession(s)
    /\ active' = "live"
    /\ stop' = FALSE
    /\ thread' = [Idle0 EXCEPT !.pc = "build"]
    /\ seen' = [Blind EXCEPT !.id = s]
    /\ used' = used \cup {s}
    /\ UNCHANGED <<call, resources, failures>>

\* The gate is busy or stopping.
StartBusy(s) ==
    /\ CanStart /\ s = Fresh
    /\ state # Idle
    /\ session' = [NewSession(s) EXCEPT !.checkpoint = "Failed"]
    /\ active' = Reaped
    /\ used' = used \cup {s}
    /\ UNCHANGED <<gateVars, call, stop, thread, seen, resources, failures>>

\* The thread cannot be spawned: the lease goes with the closure.
StartFails(s) ==
    /\ CanStart /\ s = Fresh
    /\ state = Idle /\ generation < MaxGeneration /\ failures < MaxFailures
    /\ generation' = generation + 1
    /\ session' = [NewSession(s) EXCEPT !.checkpoint = "Failed"]
    /\ active' = Reaped
    /\ used' = used \cup {s} /\ failures' = failures + 1
    /\ UNCHANGED <<state, lease, call, stop, thread, seen, resources>>

\* stop: the signal is sent and the result awaited for thirty seconds, mutex in hand.
StopCalled ==
    /\ call = "none" /\ active = "live"
    /\ stop' = TRUE /\ call' = "stop"
    /\ UNCHANGED <<gateVars, session, active, thread, seen, resources, used, failures>>

StopAnswered ==
    /\ call = "stop" /\ Ended
    /\ call' = "none"
    /\ active' = Reaped
    /\ session' = IF thread.result = "ok" THEN Stopped(session.id) ELSE session
    /\ UNCHANGED <<gateVars, stop, thread, seen, resources, used, failures>>

\* The runtime is kept for another stop.
StopTimesOut ==
    /\ call = "stop" /\ ~Ended
    /\ call' = "none"
    /\ UNCHANGED <<gateVars, session, active, stop, thread, seen, resources, used, failures>>

Controller ==
    \/ StartRefused \/ StopCalled \/ StopAnswered \/ StopTimesOut
    \/ \E s \in Sessions : Start(s) \/ StartBusy(s) \/ StartFails(s)

----------------------------------------------------------------------------
(* The thread: run_round_trip and execute_round_trip.                      *)

At(pc) == thread.pc = pc
Goto(pc) == thread' = [thread EXCEPT !.pc = pc]
Failing == failures < MaxFailures /\ failures' = failures + 1
Mine == seen.id

\* Mutant: the teardown begins, and nobody is told.
AbandonSilently == Goto("restore") /\ UNCHANGED session

\* The lifecycle ends with an error, which is reported, and the teardown begins.
Abandon == Goto("restore") /\ Fail(Mine)

\* Steps that give up when they are told to stop; the rest run on.
Selecting == {"capture", "english", "monitor", "russian", "terminal", "terminalWait", "drain"}
\* Steps that suspend, so that the timeout of the lifecycle may end them.
Suspending == Selecting \cup {"write", "finish"}

\* The runtime of the thread cannot be built: nothing but the lease is dropped.
Build ==
    /\ At("build")
    /\ \/ Goto("duplex") /\ UNCHANGED <<gateVars, failures>>
       \/ /\ Failing
          /\ thread' = [thread EXCEPT !.pc = "aborted", !.result = "err"]
          /\ Release(SelfTest)
    /\ UNCHANGED <<session, active, call, stop, seen, resources, used>>

\* DuplexRuntimeHandle::start blocks the thread, and with it the timeout of the lifecycle: a
\* start that failed joins the thread of the runtime, which may not return (DuplexRuntime).
StartDuplex ==
    /\ At("duplex")
    /\ duplex' = "running" /\ Goto("audio")
    /\ UNCHANGED <<gateVars, session, active, call, stop, seen, audio, peer, capability, used, failures>>

CreateAudio ==
    /\ At("audio")
    /\ audio' = TRUE /\ Goto("capture")
    /\ UNCHANGED <<gateVars, session, active, call, stop, seen, duplex, peer, capability, used, failures>>

\* capture_english_utterance: until the outgoing utterance has ended and its tail is read; an
\* empty capture is an error.
Capture ==
    /\ At("capture") /\ seen.outgoing_terminal
    /\ (Goto("english") /\ UNCHANGED session) \/ Abandon
    /\ UNCHANGED <<gateVars, active, call, stop, seen, resources, used, failures>>

\* wait_for sees only the latest checkpoint.
WaitFor(pc, checkpoint, next) ==
    /\ At(pc)
    /\ \/ seen.checkpoint = checkpoint /\ Goto(next) /\ UNCHANGED session
       \/ seen.checkpoint = "Failed" /\ Abandon
    /\ UNCHANGED <<gateVars, active, call, stop, seen, resources, used, failures>>

Monitor ==
    /\ At("monitor") /\ Goto("spawn")
    /\ UNCHANGED <<gateVars, session, active, call, stop, seen, resources, used, failures>>

SpawnPeer ==
    /\ At("spawn") /\ Goto("route")
    /\ peer' = "spawned"
    /\ UNCHANGED <<gateVars, session, active, call, stop, seen, duplex, audio, capability, used, failures>>

\* routes.route: the exact stream is discovered and moved; an error before or after the move
\* leaves no capability behind.
RoutePeer ==
    /\ At("route")
    /\ \/ peer' = "routed" /\ capability' = TRUE /\ Goto("validate") /\ UNCHANGED <<session, failures>>
       \/ peer' \in {peer, "routed"} /\ Failing /\ Abandon /\ UNCHANGED capability
    /\ UNCHANGED <<gateVars, active, call, stop, seen, duplex, audio, used>>

Validate ==
    /\ At("validate") /\ Goto("write")
    /\ seen' = [seen EXCEPT !.incoming_enabled = TRUE]
    /\ UNCHANGED <<gateVars, session, active, call, stop, resources, used, failures>>

WritePeer ==
    /\ At("write") /\ Goto("finish")
    /\ UNCHANGED <<gateVars, session, active, call, stop, seen, resources, used, failures>>

\* The process is waited for, or killed when it does not end in time.
FinishPeer ==
    /\ At("finish")
    /\ peer' = "ghost"
    /\ (Goto("absent") /\ UNCHANGED <<session, failures>>) \/ (Failing /\ Abandon)
    /\ UNCHANGED <<gateVars, active, call, stop, seen, duplex, audio, capability, used>>

\* Mutant: the peer is taken to be gone when its process has ended.
EnsureAbsentUnchecked ==
    /\ At("absent")
    /\ capability' = FALSE /\ Goto("proof") /\ UNCHANGED session
    /\ UNCHANGED <<gateVars, active, call, stop, seen, duplex, audio, peer, used, failures>>

\* ensure_absent polls for two seconds.
EnsureAbsent ==
    /\ At("absent")
    /\ \/ peer = "none" /\ capability' = FALSE /\ Goto("proof") /\ UNCHANGED session
       \/ peer # "none" /\ Abandon /\ UNCHANGED capability
    /\ UNCHANGED <<gateVars, active, call, stop, seen, duplex, audio, peer, used, failures>>

\* set_exact_pcm_proof is accepted only at EnglishFirstAudio.
RecordProof ==
    /\ At("proof")
    /\ IF IsActive(Mine) /\ session.checkpoint = "EnglishFirstAudio"
       THEN session' = [session EXCEPT !.proof = TRUE] /\ Goto("mark")
       ELSE Abandon
    /\ UNCHANGED <<gateVars, active, call, stop, seen, resources, used, failures>>

\* mark_reinjecting, and what the incoming utterance has already done.
MarkReinjecting ==
    /\ At("mark")
    /\ IF seen.checkpoint = "EnglishFirstAudio" /\ IsActive(Mine) /\ session.proof
       THEN Observed([seen EXCEPT !.checkpoint = "VirtualPeerReinjecting"]) /\ Goto("russian")
       ELSE Abandon /\ UNCHANGED seen
    /\ UNCHANGED <<gateVars, active, call, stop, resources, used, failures>>

\* wait_for_incoming_terminal looks at the checkpoint only when it begins to wait.
WaitIncomingTerminal ==
    /\ \/ thread.pc \in {"terminal", "terminalWait"} /\ "terminal" \in seen.in
          /\ Goto("drain") /\ UNCHANGED session
       \/ At("terminal") /\ "terminal" \notin seen.in /\ seen.checkpoint = "Failed" /\ Abandon
       \/ At("terminal") /\ "terminal" \notin seen.in /\ seen.checkpoint # "Failed"
          /\ Goto("terminalWait") /\ UNCHANGED session
    /\ UNCHANGED <<gateVars, active, call, stop, seen, resources, used, failures>>

Drain ==
    /\ At("drain") /\ Goto("complete")
    /\ UNCHANGED <<gateVars, session, active, call, stop, seen, resources, used, failures>>

\* mark_completed.
MarkCompleted ==
    /\ At("complete")
    /\ IF seen.checkpoint = "RussianFirstAudio" /\ "terminal" \in seen.in /\ IsActive(Mine)
       THEN /\ session' = [session EXCEPT !.checkpoint = "Completed"]
            /\ seen' = [seen EXCEPT !.checkpoint = "Completed"]
            /\ Goto("restore")
       ELSE Abandon /\ UNCHANGED seen
    /\ UNCHANGED <<gateVars, active, call, stop, resources, used, failures>>

\* A step that ends with an error of its own.
StepFails ==
    /\ thread.pc \in {"duplex", "audio", "capture", "monitor", "spawn", "validate", "write"}
    /\ Failing /\ Abandon
    /\ UNCHANGED <<gateVars, active, call, stop, seen, resources, used>>

\* A stop is not an error: the controller is to report it.
StopSeen ==
    /\ thread.pc \in Selecting /\ stop
    /\ Goto("restore")
    /\ UNCHANGED <<gateVars, session, active, call, stop, seen, resources, used, failures>>

\* The lifecycle runs out of time; a peer that was being finished is killed with its future.
LifecycleTimesOut ==
    /\ thread.pc \in Suspending
    /\ Abandon
    /\ peer' = IF At("finish") THEN "ghost" ELSE peer
    /\ UNCHANGED <<gateVars, active, call, stop, seen, duplex, audio, capability, used, failures>>

Execute ==
    \/ Build \/ StartDuplex \/ CreateAudio \/ Capture
    \/ WaitFor("english", "EnglishFirstAudio", "monitor")
    \/ Monitor \/ SpawnPeer \/ RoutePeer \/ Validate \/ WritePeer \/ FinishPeer
    \/ EnsureAbsent \/ RecordProof \/ MarkReinjecting
    \/ WaitFor("russian", "RussianFirstAudio", "terminal")
    \/ WaitIncomingTerminal \/ Drain \/ MarkCompleted \/ StepFails \/ StopSeen

----------------------------------------------------------------------------
(* The teardown.  Every step is tried, whatever became of the ones before. *)

Tried(pc, ok) ==
    thread' = [thread EXCEPT !.pc = pc, !.failed = @ \/ ~ok]

RestoreRoute ==
    /\ At("restore")
    /\ \/ Tried("writes", TRUE) /\ UNCHANGED failures
          /\ peer' = IF capability /\ peer = "routed" THEN "spawned" ELSE peer
       \/ capability /\ Failing /\ Tried("writes", FALSE) /\ UNCHANGED peer
    /\ UNCHANGED <<gateVars, session, active, call, stop, seen, duplex, audio, capability, used>>

StopProcesses(from, to) ==
    /\ At(from) /\ Tried(to, TRUE)
    /\ peer' = IF peer = "none" THEN "none" ELSE "ghost"
    /\ audio' = (audio /\ from = "writes")
    /\ UNCHANGED <<gateVars, session, active, call, stop, seen, duplex, capability, used, failures>>

EnsureGone ==
    /\ At("gone")
    /\ Tried("duplexStop", capability => peer = "none")
    /\ UNCHANGED <<gateVars, session, active, call, stop, seen, resources, used, failures>>

StopDuplex ==
    /\ At("duplexStop")
    /\ \/ duplex' = "none" /\ Tried("release", TRUE) /\ UNCHANGED failures
       \/ duplex = "running" /\ Failing /\ Tried("release", FALSE) /\ UNCHANGED duplex
    /\ UNCHANGED <<gateVars, session, active, call, stop, seen, audio, peer, capability, used>>

\* force_release: what is dropped while it runs goes on for a while without an owner.
Dropped ==
    /\ duplex' = IF duplex = "running" THEN "orphan" ELSE "none"
    /\ audio' = FALSE /\ capability' = FALSE
    /\ peer' = IF peer = "none" THEN "none" ELSE "ghost"

\* Mutant: a failed teardown returns before it has let go of everything.
ReleaseAfterSuccess ==
    /\ At("release")
    /\ Dropped
    /\ IF thread.failed THEN UNCHANGED gateVars ELSE Release(SelfTest)
    /\ thread' = [thread EXCEPT !.pc = "ended", !.result = IF thread.failed THEN "err" ELSE "ok"]
    /\ session' = IF thread.failed THEN Failed(Mine) ELSE session
    /\ UNCHANGED <<active, call, stop, seen, used, failures>>

\* A teardown that failed after a lifecycle that did not is reported.  The session of such a
\* lifecycle is completed, so that the report changes nothing.
ReleaseAll ==
    /\ At("release")
    /\ Dropped
    /\ Release(SelfTest)
    /\ thread' = [thread EXCEPT !.pc = "ended", !.result = IF thread.failed THEN "err" ELSE "ok"]
    /\ UNCHANGED <<session, active, call, stop, seen, used, failures>>

\* Mutant: the deadline only gives the gate back.
TeardownGivesUp ==
    /\ thread.pc \in {"restore", "writes", "processes"}
    /\ UNCHANGED resources
    /\ Release(SelfTest)
    /\ thread' = [thread EXCEPT !.pc = "ended", !.result = "err"]
    /\ UNCHANGED <<session, active, call, stop, seen, used, failures>>

\* The deadline of the whole test has passed before or during the teardown.
TeardownTimesOut ==
    /\ thread.pc \in {"restore", "writes", "processes"}
    /\ Dropped
    /\ Release(SelfTest)
    /\ thread' = [thread EXCEPT !.pc = "ended", !.result = "err"]
    /\ UNCHANGED <<session, active, call, stop, seen, used, failures>>

Teardown ==
    \/ RestoreRoute
    \/ StopProcesses("writes", "processes") \/ StopProcesses("processes", "gone")
    \/ EnsureGone \/ StopDuplex \/ ReleaseAll

----------------------------------------------------------------------------
(* The surroundings.                                                       *)

\* The sound server drops the stream of a process that has ended.
StreamEnds ==
    /\ peer = "ghost" /\ peer' = "none"
    /\ UNCHANGED <<gateVars, session, active, call, stop, thread, seen, duplex, audio, capability,
                   used, failures>>

\* A duplex runtime that was dropped has been told to stop.
OrphanEnds ==
    /\ duplex = "orphan" /\ duplex' = "none"
    /\ UNCHANGED <<gateVars, session, active, call, stop, thread, seen, audio, peer, capability,
                   used, failures>>

\* The translation, a manual route and the shutdown use the gate too.
Others ==
    /\ \/ BeginStopping
       \/ \E h \in Holders \ {SelfTest} : AcquireProduction(h) \/ AcquireManual(h) \/ Release(h)
    /\ UNCHANGED testVars

RoundTripInit ==
    /\ GateInit
    /\ session = Idling /\ active = "none" /\ call = "none" /\ stop = FALSE
    /\ thread = Idle0 /\ seen = Blind
    /\ duplex = "none" /\ audio = FALSE /\ peer = "none" /\ capability = FALSE
    /\ used = {} /\ failures = 0

RoundTripNext ==
    \/ Controller \/ Execute \/ LifecycleTimesOut \/ Teardown \/ TeardownTimesOut
    \/ (\E event \in Events : ObserveMicrophone(event) \/ ObserveSpeaker(event))
    \/ StreamEnds \/ OrphanEnds \/ Others

RoundTripSpec == RoundTripInit /\ [][RoundTripNext]_roundTripVars

\* The thread runs and its timeouts expire, but the start of the duplex runtime need not
\* return.  The runtime owes no event, and nobody has to call.
RoundTripFairSpec ==
    /\ RoundTripSpec
    /\ WF_roundTripVars(~At("duplex") /\ (Execute \/ LifecycleTimesOut))
    /\ WF_roundTripVars(Teardown)

----------------------------------------------------------------------------
(* Properties.                                                             *)

\* A test is past the reinjection only with an exact proof of what was reinjected and after
\* the virtual peer's stream is gone, and it is complete only when the incoming utterance was
\* heard to its end: stages that the thread and the observer pass in either order.
CompletedIsEarned ==
    /\ session.checkpoint \in {CHECKPOINTS[i] : i \in 6..10} => session.proof /\ peer = "none"
    /\ session.checkpoint = "Completed" => {"audio", "terminal"} \subseteq seen.in

\* The gate is free for another operation only when the test's processes are gone; what may be
\* left is a duplex runtime that would not stop, and then the handle knows of the failure.
GateCoversTest ==
    ~lease[SelfTest].active =>
        /\ ~audio /\ peer \in {"none", "ghost"} /\ duplex # "running"
        /\ duplex = "orphan" => thread.result = "err"

\* The handle forgets a runtime only after a teardown that left nothing behind.
ForgottenIsClean == active = "none" => duplex = "none" /\ ~audio /\ ~capability

\* A test whose thread ends without having been told to stop leaves a session that is over
\* (run_round_trip calls progress.fail on every error).  The one end that nobody reports is
\* that of a thread whose runtime cannot be built: its session waits for speech for ever, but
\* the handle keeps the failed runtime, so that no other test takes its place.
EndIsReported ==
    Ended /\ ~stop => \/ is_terminal(session.checkpoint)
                      \/ At("aborted") /\ active # "none"

\* The test gives the gate back, whatever the processes and the callers do, and so does a test
\* whose teardown fails.  Only the start of the duplex runtime may keep it: a test that comes
\* out of it, with a runtime or with an error, has to give the gate back in its turn.
LeaseComesBack == lease[SelfTest].active ~> (~lease[SelfTest].active \/ At("duplex"))

\* A session that is not over can be stopped: between two calls of the controller the handle
\* still has its runtime.
SessionIsStoppable ==
    call = "none" /\ ~is_terminal(session.checkpoint) => active # "none"
====
