-------------------------- MODULE DirectionSession --------------------------
(***************************************************************************)
(* One direction of the duplex translator inside the daemon: the loop      *)
(* run_direction (translation_runtime.rs) around a DirectionSession        *)
(* (direction_session.rs), whose ProviderStreamCoordinator keeps a         *)
(* ProviderAudioWatchdog (provider_audio_watchdog.rs) and a                *)
(* ProviderEventValidator (translator-ipc/validation.rs) in step.          *)
(*                                                                         *)
(* Time is kept as the ticks left before each deadline: a deadline that    *)
(* is reached has 0 ticks left, one that has passed a negative number, and *)
(* the clock stops once not even a frame of age CaptureLag is in time.     *)
(* Audio sequence numbers are counts: wire[u] = n says that the            *)
(* frames 0 .. n-1 of u were received, and 0 stands for None.              *)
(*                                                                         *)
(* The provider is arbitrary here: any event may arrive at any time.       *)
(* Events whose envelope, identity, format or event number the validator   *)
(* refuses are all the one input Malformed.                                *)
(*                                                                         *)
(* Opening the stream, sending to the provider (a channel of 20 requests)  *)
(* and writing to the playback device have no timeout: each of them may    *)
(* block the loop, for good when the other side hangs.  A blocked loop     *)
(* handles nothing, neither its deadlines nor a stop.                      *)
(***************************************************************************)
EXTENDS Integers, FiniteSets

CONSTANTS Utterances,          \* utterance ids the segmenter draws from
          None,                \* no utterance
          MaxAudio,            \* bound: audio frames of one utterance
          CollectingTimeout,   \* COLLECTING_INPUT_TIMEOUT
          FirstAudioTimeout,   \* FIRST_AUDIO_AFTER_EOU_TIMEOUT
          InterDeltaTimeout,   \* INTER_AUDIO_DELTA_TIMEOUT
          CancelTimeout,       \* CANCEL_FINAL_TIMEOUT
          CloseTimeout,        \* CLOSE_ACK_TIMEOUT
          MaxAge,              \* max_age_ms of the session's mode
          CaptureLag,          \* bound: age of a captured frame when it is handled
          MaxActive,           \* MAX_ACTIVE_UTTERANCES
          MaxTerminal,         \* MAX_TERMINAL_UTTERANCES
          DebugText            \* debug_text_enabled of the session

ASSUME NoneAssumption == None \notin Utterances

ASSUME BoundsAssumption ==
  /\ MaxAudio \in Nat /\ MaxAge \in Nat /\ MaxActive \in Nat /\ MaxTerminal \in Nat
  /\ CollectingTimeout \in Nat /\ FirstAudioTimeout \in Nat /\ InterDeltaTimeout \in Nat
  /\ CancelTimeout \in Nat /\ CloseTimeout \in Nat
  /\ CaptureLag \in Nat /\ CaptureLag <= CollectingTimeout /\ CaptureLag <= FirstAudioTimeout
  /\ CaptureLag <= MaxAge
  /\ DebugText \in BOOLEAN

VARIABLES loop,        \* where run_direction is: opening, running, closing, ended
          exit,        \* the DirectionExit it returns, or Error
          blocked,     \* the loop waits in a call that has no timeout
          playback,    \* direction.playback is there
          speaking,    \* SpeechSegmenter.utterance_id
          collecting,  \* DirectionSession.collecting_utterance
          active,      \* DirectionSession.active_utterances
          phase,       \* watchdog: phase of each utterance, "none" when not watched
          left,        \* watchdog: ticks left before the deadline of that phase
          sess,        \* watchdog: SessionPhase
          closeLeft,   \* watchdog: ticks left before the ClosePending deadline
          opened,      \* validator.opened
          closed,      \* validator.closed
          known,       \* keys of validator.input_capture_ns
          age,         \* ticks since input_complete_ns, from the end of the utterance
          wire,        \* validator.last_wire_audio_sequence
          playable,    \* validator.last_playable_audio_sequence
          terminal,    \* validator.terminal_utterances
          cancelPending,   \* validator.cancel_pending
          overflow,    \* validator.pending_overflow_terminal
          noSpeech,    \* validator.pending_no_speech_terminal
          asrOnly,     \* validator.pending_no_speech_latency
          played,      \* frames of each utterance written to the playback device
          outcome      \* the UtteranceTerminalOutcome observed for each utterance

loopVars == <<loop, exit, blocked, playback>>
captureVars == <<speaking, collecting, active>>
watchdogVars == <<phase, left, sess, closeLeft>>
audioVars == <<age, wire, playable>>
pendingVars == <<overflow, noSpeech, asrOnly>>
validatorVars == <<opened, closed, known, terminal, cancelPending, audioVars, pendingVars>>
effectVars == <<played, outcome>>

vars == <<loopVars, captureVars, watchdogVars, validatorVars, effectVars>>

Phases == {"none", "collecting", "awaiting", "streaming", "cancelPending"}
Outcomes == {"Completed", "Cancelled", "Dropped"}
NoOutcome == [kind |-> "none", last |-> 0]
Codes == {"QueueOverflow", "NoSpeech", "Other"}

Init ==
  /\ loop = "opening" /\ exit = "none" /\ blocked = TRUE /\ playback = FALSE
  /\ speaking = None /\ collecting = None /\ active = {}
  /\ phase = [u \in Utterances |-> "none"] /\ left = [u \in Utterances |-> 0]
  /\ sess = "active" /\ closeLeft = 0
  /\ opened = FALSE /\ closed = FALSE /\ known = {} /\ terminal = {} /\ cancelPending = {}
  /\ age = [u \in Utterances |-> 0]
  /\ wire = [u \in Utterances |-> 0] /\ playable = [u \in Utterances |-> 0]
  /\ overflow = None /\ noSpeech = None /\ asrOnly = None
  /\ played = [u \in Utterances |-> 0] /\ outcome = [u \in Utterances |-> NoOutcome]

-----------------------------------------------------------------------------
(* The end of the loop.                                                    *)

\* The loop is not blocked and takes what comes next.
Awake == loop # "ended" /\ ~blocked

Running == loop = "running" /\ ~blocked

\* ProviderStreamClient::open, a send or a write returns.
Unblock ==
  /\ blocked
  /\ blocked' = FALSE
  /\ UNCHANGED <<loop, exit, playback, captureVars, watchdogVars, validatorVars, effectVars>>

\* Every error of the session ends run_direction, and what the refused call leaves
\* behind goes with it.  Only a close on behalf of a stop ignores the error:
\* `let _ = close_direction(..)` returns Stopped all the same.
Fail ==
  /\ loop' = "ended"
  /\ blocked' = FALSE
  /\ playback' = FALSE
  /\ exit' = IF loop = "closing" /\ exit = "Stopped" THEN exit ELSE "Error"
  /\ UNCHANGED <<captureVars, watchdogVars, validatorVars, effectVars>>

\* close_direction: capture and playback stop, the close request is sent, and
\* only provider events are handled from then on.
BeginClose(reason) ==
  /\ Running
  /\ loop' = "closing"
  /\ exit' = reason
  /\ playback' = FALSE
  /\ blocked' \in BOOLEAN
  /\ UNCHANGED <<captureVars, watchdogVars, validatorVars, effectVars>>

Stop == BeginClose("Stopped")

GenerationStop == BeginClose("RestartRequired")

\* The timeout only covers the wait for the answer, not the send before it.
CloseAckTimeout == loop = "closing" /\ ~blocked /\ Fail

OpenTimeout == loop = "opening" /\ ~blocked /\ Fail

\* The provider stream ends or breaks, or a capture or playback device fails, also
\* while the loop waits for it.
Fault == loop # "ended" /\ Fail

-----------------------------------------------------------------------------
(* Capture: what the segmenter emits and handle_capture does with it.      *)

\* record_input without the limit of active utterances.
CanStartBeyondTheLimit(u) ==
  /\ collecting = None
  /\ u \notin active
  /\ sess = "active"
  /\ phase[u] = "none"
  /\ opened /\ ~closed
  /\ u \notin terminal

CanStart(u) ==
  /\ collecting = None
  /\ u \notin active
  /\ sess = "active"
  /\ phase[u] = "none"
  /\ opened /\ ~closed
  /\ u \notin terminal
  /\ Cardinality(known) < MaxActive

\* SpeechStarted for a fresh id, followed in the same call by its first frames.
SpeechStarted(u, lag) ==
  /\ Running
  /\ speaking = None
  /\ u \notin active \cup known \cup terminal
  /\ \/ /\ CanStart(u)
        /\ speaking' = u
        /\ collecting' = u
        /\ active' = active \cup {u}
        /\ phase' = [phase EXCEPT ![u] = "collecting"]
        /\ left' = [left EXCEPT ![u] = CollectingTimeout - lag]
        /\ known' = known \cup {u}
        /\ blocked' \in BOOLEAN
        /\ UNCHANGED <<loop, exit, playback, sess, closeLeft, opened, closed, terminal,
                       cancelPending, audioVars, pendingVars, effectVars>>
     \/ ~CanStart(u) /\ Fail

\* A frame that does not end the utterance only has to belong to the utterance
\* the session collects; it is sent on, which may block, and changes no state.
CaptureFrame ==
  /\ Running
  /\ speaking # None
  /\ \/ /\ collecting = speaking
        /\ blocked' = TRUE
        /\ UNCHANGED <<loop, exit, playback, captureVars, watchdogVars, validatorVars, effectVars>>
     \/ collecting # speaking /\ Fail

CanEndUtterance(u, lag) ==
  /\ collecting = u
  /\ sess = "active"
  /\ phase[u] = "collecting"
  /\ left[u] + lag >= 0
  /\ opened /\ ~closed
  /\ u \in known

\* The frame with end_of_utterance; its capture stamp is lag ticks old.
EndOfUtterance(u, lag) ==
  /\ Running
  /\ speaking = u
  /\ \/ /\ CanEndUtterance(u, lag)
        /\ speaking' = None
        /\ collecting' = None
        /\ phase' = [phase EXCEPT ![u] = "awaiting"]
        /\ left' = [left EXCEPT ![u] = FirstAudioTimeout - lag]
        /\ age' = [age EXCEPT ![u] = lag]
        /\ blocked' \in BOOLEAN
        /\ UNCHANGED <<loop, exit, playback, active, sess, closeLeft, opened, closed, known,
                       terminal, cancelPending, wire, playable, pendingVars, effectVars>>
     \/ ~CanEndUtterance(u, lag) /\ Fail

-----------------------------------------------------------------------------
(* Provider events: ProviderStreamCoordinator::validate_event, then what   *)
(* handle_provider_event and run_direction do with the effect.             *)

\* The session takes events: only SessionClosed is taken in another phase.
Receiving == Awake /\ opened /\ ~closed /\ sess = "active"

\* No Dropped terminal is owed for an overflow or for missing speech.
Free == overflow = None /\ noSpeech = None

ActiveUtterance(u) == u \in known /\ u \notin terminal

InTime(u) == phase[u] \in {"awaiting", "streaming"} /\ left[u] >= 0

Malformed == Awake /\ Fail

CanOpen == Awake /\ ~opened /\ ~closed /\ sess = "active"

SessionOpened ==
  /\ Awake
  /\ \/ /\ CanOpen
        /\ opened' = TRUE
        /\ asrOnly' = None
        /\ UNCHANGED <<loopVars, captureVars, watchdogVars, closed, known, terminal, cancelPending,
                       audioVars, overflow, noSpeech, effectVars>>
     \/ ~CanOpen /\ Fail

\* The first operational report ends the opening loop of prepare_direction, which
\* then spawns capture and playback.
Health(operational) ==
  /\ Awake
  /\ \/ /\ Receiving /\ Free
        /\ loop' = IF loop = "opening" /\ operational THEN "running" ELSE loop
        /\ playback' = IF loop = "opening" /\ operational THEN TRUE ELSE playback
        /\ asrOnly' = None
        /\ UNCHANGED <<exit, blocked, captureVars, watchdogVars, opened, closed, known, terminal,
                       cancelPending, audioVars, overflow, noSpeech, effectVars>>
     \/ ~(Receiving /\ Free) /\ Fail

\* An audio frame whose sequence number is not looked at.
CanPlayAnySequence(u, seq) ==
  /\ Receiving /\ Free
  /\ InTime(u)
  /\ u \notin cancelPending
  /\ ActiveUtterance(u)
  /\ playable[u] > 0 \/ age[u] <= MaxAge

CanPlay(u, seq) ==
  /\ Receiving /\ Free
  /\ InTime(u)
  /\ u \notin cancelPending
  /\ ActiveUtterance(u)
  /\ seq = wire[u]
  /\ playable[u] > 0 \/ age[u] <= MaxAge

\* The frame is buffered, taken out again and written to the playback device, which
\* is spawned again if need be, unless the direction is closing and ignores the effect.
Play(u, seq) ==
  /\ CanPlay(u, seq)
  /\ wire' = [wire EXCEPT ![u] = seq + 1]
  /\ playable' = [playable EXCEPT ![u] = seq + 1]
  /\ phase' = [phase EXCEPT ![u] = "streaming"]
  /\ left' = [left EXCEPT ![u] = InterDeltaTimeout]
  /\ asrOnly' = None
  /\ played' = IF loop = "running" THEN [played EXCEPT ![u] = @ + 1] ELSE played
  /\ playback' = IF loop = "running" THEN TRUE ELSE playback
  /\ blocked' \in {FALSE, loop = "running"}
  /\ UNCHANGED <<loop, exit, captureVars, sess, closeLeft, opened, closed, known, terminal,
                 cancelPending, age, overflow, noSpeech, outcome>>

CanExpire(u, seq) ==
  /\ Receiving /\ Free
  /\ InTime(u)
  /\ u \notin cancelPending
  /\ ActiveUtterance(u)
  /\ seq = wire[u]
  /\ playable[u] = 0 /\ age[u] > MaxAge

\* ExpiredAudio: the first frame is too old, the utterance is cancelled.  Unless the
\* direction is closing, its playback is stopped and the cancel is sent.
Expire(u, seq) ==
  /\ CanExpire(u, seq)
  /\ wire' = [wire EXCEPT ![u] = seq + 1]
  /\ phase' = [phase EXCEPT ![u] = "cancelPending"]
  /\ left' = [left EXCEPT ![u] = CancelTimeout]
  /\ cancelPending' = cancelPending \cup {u}
  /\ asrOnly' = None
  /\ playback' = IF loop = "running" THEN FALSE ELSE playback
  /\ blocked' \in {FALSE, loop = "running"}
  /\ UNCHANGED <<loop, exit, captureVars, sess, closeLeft, opened, closed, known, terminal,
                 age, playable, overflow, noSpeech, effectVars>>

CanDiscard(u, seq) ==
  /\ Receiving
  /\ phase[u] = "cancelPending" \/ InTime(u)
  /\ u \in cancelPending
  /\ seq = wire[u]

\* CancelledAudio: counted and dropped.
Discard(u, seq) ==
  /\ CanDiscard(u, seq)
  /\ wire' = [wire EXCEPT ![u] = seq + 1]
  /\ UNCHANGED <<loopVars, captureVars, watchdogVars, opened, closed, known, terminal,
                 cancelPending, age, playable, pendingVars, effectVars>>

AudioDelta(u, seq) ==
  /\ Awake
  /\ \/ Play(u, seq)
     \/ Expire(u, seq)
     \/ Discard(u, seq)
     \/ ~CanPlay(u, seq) /\ ~CanExpire(u, seq) /\ ~CanDiscard(u, seq) /\ Fail

\* A TranscriptDelta or a TranslationDelta.
CanText(u) ==
  /\ Receiving /\ Free
  /\ u \notin cancelPending
  /\ ActiveUtterance(u)
  /\ DebugText

TextDelta(u) ==
  /\ Awake
  /\ \/ /\ CanText(u)
        /\ asrOnly' = None
        /\ UNCHANGED <<loopVars, captureVars, watchdogVars, opened, closed, known, terminal,
                       cancelPending, audioVars, overflow, noSpeech, effectVars>>
     \/ ~CanText(u) /\ Fail

CanReport(u) ==
  /\ Receiving /\ Free
  /\ u \notin cancelPending
  /\ u = None \/ ActiveUtterance(u)

\* asrStagesOnly: the report has ASR times and neither MT nor TTS times.
Latency(u, asrStagesOnly) ==
  /\ Awake
  /\ \/ /\ CanReport(u)
        /\ asrOnly' = IF asrStagesOnly THEN u ELSE None
        /\ UNCHANGED <<loopVars, captureVars, watchdogVars, opened, closed, known, terminal,
                       cancelPending, audioVars, overflow, noSpeech, effectVars>>
     \/ ~CanReport(u) /\ Fail

CanReportError(u, code) ==
  /\ CanReport(u)
  /\ code = "QueueOverflow" => u # None
  /\ code = "NoSpeech" => u # None /\ asrOnly = u

ProviderError(u, code) ==
  /\ Awake
  /\ \/ /\ CanReportError(u, code)
        /\ overflow' = IF code = "QueueOverflow" THEN u ELSE overflow
        /\ noSpeech' = IF code = "NoSpeech" THEN u ELSE noSpeech
        /\ asrOnly' = None
        /\ UNCHANGED <<loopVars, captureVars, watchdogVars, opened, closed, known, terminal,
                       cancelPending, audioVars, effectVars>>
     \/ ~CanReportError(u, code) /\ Fail

\* The watchdog's check_final.
FinalInTime(u, kind) ==
  \/ phase[u] = "cancelPending" /\ kind = "Cancelled" /\ left[u] >= 0
  \/ InTime(u) /\ kind \in {"Completed", "Dropped"}

\* The validator's verdict on a final: which terminal it expects next.
FinalExpected(u, kind, last) ==
  \/ u \in cancelPending /\ kind = "Cancelled" /\ last = wire[u]
  \/ /\ u \notin cancelPending
     /\ overflow # None
     /\ u = overflow /\ kind = "Dropped" /\ last = playable[u]
  \/ /\ u \notin cancelPending
     /\ overflow = None /\ noSpeech # None
     /\ u = noSpeech /\ kind = "Dropped" /\ last = 0
  \/ /\ u \notin cancelPending
     /\ Free
     /\ ActiveUtterance(u) /\ kind # "Cancelled" /\ last = playable[u]

CanFinish(u, kind, last) ==
  /\ Receiving
  /\ FinalInTime(u, kind)
  /\ FinalExpected(u, kind, last)
  /\ Cardinality(terminal) < MaxTerminal

\* A final that is reported before it is validated.
UtteranceFinalUnchecked(u, kind, last, reopen) ==
  /\ Running
  /\ outcome' = [outcome EXCEPT ![u] = [kind |-> kind, last |-> last]]
  /\ UNCHANGED <<loopVars, captureVars, watchdogVars, validatorVars, played>>

\* reopen: the latency policy asks for another mode once the utterance is over;
\* the direction then waits for its playback to end and closes.
UtteranceFinal(u, kind, last, reopen) ==
  /\ Awake
  /\ \/ /\ CanFinish(u, kind, last)
        /\ phase' = [phase EXCEPT ![u] = "none"]
        /\ left' = [left EXCEPT ![u] = 0]
        /\ age' = [age EXCEPT ![u] = 0]
        /\ wire' = [wire EXCEPT ![u] = 0]
        /\ playable' = [playable EXCEPT ![u] = 0]
        /\ known' = known \ {u}
        /\ terminal' = terminal \cup {u}
        /\ cancelPending' = cancelPending \ {u}
        /\ active' = active \ {u}
        /\ overflow' = IF u \in cancelPending THEN overflow ELSE None
        /\ noSpeech' = IF u \in cancelPending \/ overflow # None THEN noSpeech ELSE None
        /\ asrOnly' = IF u \in cancelPending \/ ~Free THEN asrOnly ELSE None
        /\ outcome' = IF loop = "running"
                       THEN [outcome EXCEPT ![u] = [kind |-> kind, last |-> last]] ELSE outcome
        /\ loop' = IF loop = "running" /\ reopen THEN "closing" ELSE loop
        /\ exit' = IF loop = "running" /\ reopen THEN "ModeChanged" ELSE exit
        /\ playback' = IF loop = "running" /\ reopen THEN FALSE ELSE playback
        /\ blocked' \in {FALSE, loop = "running" /\ reopen}
        /\ UNCHANGED <<speaking, collecting, sess, closeLeft, opened, closed, played>>
     \/ ~CanFinish(u, kind, last) /\ Fail

CanClose == Awake /\ opened /\ ~closed /\ Free

\* SessionClosed acknowledges a close request; run_direction ignores one it is
\* not waiting for.
SessionClosed ==
  /\ Awake
  /\ \/ /\ CanClose
        /\ closed' = TRUE
        /\ sess' = "terminal"
        /\ phase' = [u \in Utterances |-> "none"]
        /\ left' = [u \in Utterances |-> 0]
        /\ active' = {}
        /\ collecting' = None
        /\ asrOnly' = None
        /\ loop' = IF loop = "closing" THEN "ended" ELSE loop
        /\ UNCHANGED <<exit, blocked, playback, speaking, closeLeft, opened, known, terminal,
                       cancelPending, audioVars, overflow, noSpeech, effectVars>>
     \/ ~CanClose /\ Fail

-----------------------------------------------------------------------------
(* The watchdog.                                                           *)

\* The watchdog without a deadline for the input of an utterance.
ExpiredReply == {u \in Utterances : phase[u] \in {"awaiting", "streaming"} /\ left[u] < 0}

Expired == {u \in Utterances : phase[u] \in {"collecting", "awaiting", "streaming"} /\ left[u] < 0}

Overdue == {u \in Utterances : phase[u] = "cancelPending" /\ left[u] < 0}

CanCancel(u) == opened /\ ~closed /\ u \notin terminal /\ u \in known

\* ProviderAudioWatchdog::poll on the utterances: expired ones become CancelPending.
CancelExpired ==
  /\ phase' = [u \in Utterances |-> IF u \in Expired THEN "cancelPending" ELSE phase[u]]
  /\ left' = [u \in Utterances |-> IF u \in Expired THEN CancelTimeout ELSE left[u]]

\* poll that forgets the utterance it was collecting.
ReleasedNever(us) == collecting

\* What the session still collects once the utterances us are cancelled.
Released(us) == IF collecting \in us THEN None ELSE collecting

\* The loop stops the playback and sends the request of the watchdog's action.
PurgeAndSend ==
  /\ playback' = FALSE
  /\ blocked' \in BOOLEAN
  /\ UNCHANGED <<loop, exit>>

\* The 25 ms watchdog tick with an active session and no cancel overdue.
PollCancel ==
  /\ Running /\ sess = "active" /\ Overdue = {} /\ Expired # {}
  /\ \/ /\ \A u \in Expired : CanCancel(u)
        /\ CancelExpired
        /\ cancelPending' = cancelPending \cup Expired
        /\ collecting' = Released(Expired)
        /\ PurgeAndSend
        /\ UNCHANGED <<speaking, active, sess, closeLeft, opened, closed, known,
                       terminal, audioVars, pendingVars, effectVars>>
     \/ (\E u \in Expired : ~CanCancel(u)) /\ Fail

\* A cancel was not acknowledged in time: the session is closed.  The cancels
\* that expire in the same poll are not reported to anybody.
PollClose ==
  /\ Running /\ sess = "active" /\ Overdue # {}
  /\ CancelExpired
  /\ sess' = "closePending"
  /\ closeLeft' = CloseTimeout
  /\ PurgeAndSend
  /\ UNCHANGED <<captureVars, validatorVars, effectVars>>

\* The close was not acknowledged either: the generation is restarted.
PollRestart ==
  /\ Running /\ sess = "closePending" /\ closeLeft <= 0
  /\ sess' = "restartIssued"
  /\ loop' = "ended"
  /\ playback' = FALSE
  /\ exit' = "RestartRequired"
  /\ UNCHANGED <<blocked, captureVars, phase, left, closeLeft, validatorVars, effectVars>>

Poll == PollCancel \/ PollClose \/ PollRestart

Down(n) == IF n >= -CaptureLag THEN n - 1 ELSE n

\* The clock; it runs while deadlines do.
Tick ==
  /\ loop \in {"running", "closing"}
  /\ left' = [u \in Utterances |-> IF phase[u] = "none" THEN 0 ELSE Down(left[u])]
  /\ closeLeft' = IF sess = "closePending" THEN Down(closeLeft) ELSE closeLeft
  /\ age' = [u \in Utterances |-> IF phase[u] \in {"awaiting", "streaming"} /\ age[u] <= MaxAge
                                  THEN age[u] + 1 ELSE age[u]]
  /\ UNCHANGED <<loopVars, captureVars, phase, sess, opened, closed, known, terminal,
                 cancelPending, wire, playable, pendingVars, effectVars>>

-----------------------------------------------------------------------------
CaptureStep ==
  \/ CaptureFrame
  \/ \E u \in Utterances, lag \in 0 .. CaptureLag : SpeechStarted(u, lag) \/ EndOfUtterance(u, lag)

ProviderStep ==
  \/ Malformed
  \/ SessionOpened
  \/ \E operational \in BOOLEAN : Health(operational)
  \/ \E u \in Utterances, seq \in 0 .. MaxAudio - 1 : AudioDelta(u, seq)
  \/ \E u \in Utterances : TextDelta(u)
  \/ \E u \in Utterances \cup {None}, b \in BOOLEAN : Latency(u, b)
  \/ \E u \in Utterances \cup {None}, code \in Codes : ProviderError(u, code)
  \/ \E u \in Utterances, kind \in Outcomes, last \in 0 .. MaxAudio, reopen \in BOOLEAN :
       UtteranceFinal(u, kind, last, reopen)
  \/ SessionClosed

ControlStep == Stop \/ GenerationStop \/ CloseAckTimeout \/ OpenTimeout \/ Fault \/ Unblock

Next == CaptureStep \/ ProviderStep \/ ControlStep \/ Poll \/ Tick

Spec == Init /\ [][Next]_vars

\* Time passes, and whenever the loop is not blocked tokio polls its interval and its
\* timeouts.  Nothing makes a blocked call return.
Fairness == SF_vars(Poll) /\ WF_vars(Tick) /\ WF_vars(CloseAckTimeout) /\ WF_vars(OpenTimeout)

FairSpec == Spec /\ Fairness

-----------------------------------------------------------------------------
(* Properties.                                                             *)

\* Every variable has the shape of the field it models.
TypeOK ==
  /\ loop \in {"opening", "running", "closing", "ended"}
  /\ exit \in {"none", "Stopped", "RestartRequired", "ModeChanged", "Error"}
  /\ blocked \in BOOLEAN /\ playback \in BOOLEAN
  /\ speaking \in Utterances \cup {None} /\ collecting \in Utterances \cup {None}
  /\ active \subseteq Utterances
  /\ phase \in [Utterances -> Phases] /\ left \in [Utterances -> Int]
  /\ sess \in {"active", "closePending", "restartIssued", "terminal"} /\ closeLeft \in Int
  /\ opened \in BOOLEAN /\ closed \in BOOLEAN
  /\ known \subseteq Utterances /\ terminal \subseteq Utterances
  /\ cancelPending \subseteq Utterances
  /\ age \in [Utterances -> Nat] /\ wire \in [Utterances -> Nat] /\ playable \in [Utterances -> Nat]
  /\ overflow \in Utterances \cup {None} /\ noSpeech \in Utterances \cup {None}
  /\ asrOnly \in Utterances \cup {None}
  /\ played \in [Utterances -> Nat]
  /\ outcome \in [Utterances -> [kind : Outcomes \cup {"none"}, last : Nat]]

\* Whatever the provider sends, while the session is active the watchdog, the
\* validator and the session keep the same utterances, agree which of them is
\* being cancelled and which one still collects input (provider_audio_watchdog.rs
\* rolls the watchdog back whenever the validator refuses).  Outside that the
\* variables have their types.
Agreement ==
  /\ TypeOK
  /\ sess = "active" =>
       \A u \in Utterances :
         /\ u \in known <=> phase[u] # "none"
         /\ u \in active <=> phase[u] # "none"
         /\ u \in cancelPending <=> phase[u] = "cancelPending"
         /\ collecting = u <=> phase[u] = "collecting"

\* The maps of the session and of the watchdog have no limit of their own; the
\* validator's refusal keeps all of them within the two capacities, whichever
\* utterances overlap, are cancelled or stay unanswered.
WithinCapacity ==
  /\ Cardinality({u \in Utterances : phase[u] # "none"}) <= MaxActive
  /\ Cardinality(active) <= MaxActive
  /\ Cardinality(terminal) <= MaxTerminal

\* An utterance reported Completed was played in full: as many frames went to
\* the playback device as the provider says it sent, none of them twice and none
\* left out (final_audio_sequence against last_playable_audio_sequence).
CompletedMeansPlayed ==
  \A u \in Utterances : outcome[u].kind = "Completed" => played[u] = outcome[u].last

\* The outcome the observers were told of an utterance is never taken back or
\* followed by another one (terminal_utterances of the validator).
OutcomeIsFinal ==
  [][\A u \in Utterances : outcome[u] # NoOutcome => outcome'[u] = outcome[u]]_vars

\* A provider that stays silent, answers late or answers anything at all does not keep
\* an utterance in the watchdog for ever: it gets its final, or the direction ends and
\* is restarted.  The one way out is a loop that is stuck for good in a call without a
\* timeout, an open, a send or a write nobody reads: then no deadline is looked at.
WatchdogResolves ==
  \A u \in Utterances :
    phase[u] # "none" ~> (phase[u] = "none" \/ loop = "ended" \/ []blocked)

\* What the test collecting_timeout_releases_capture_for_the_next_utterance says:
\* once the session stops collecting an utterance, the next thing captured is the
\* start of another one, so the segmenter is not inside an utterance either.
TimeoutReleasesCapture ==
  loop = "running" /\ sess = "active" /\ collecting = None => speaking = None
=============================================================================
