----------------------- MODULE DirectionSession_proofs -----------------------
(***************************************************************************)
(* Proofs about one direction, for any utterances, deadlines, capacities   *)
(* and provider: the watchdog, the validator and the session agree on the  *)
(* utterances; their number stays within the capacities; an utterance that *)
(* is reported completed was played; and an outcome is final.              *)
(***************************************************************************)
EXTENDS DirectionSession, FiniteSetTheorems, TLAPS

----------------------------------------------------------------------------
(* The inductive invariant.                                                *)

\* The session, the watchdog and the validator, also while the session waits for its close.
SameUtterances ==
  /\ sess = "active" =>
       \A u \in Utterances :
         /\ u \in cancelPending <=> phase[u] = "cancelPending"
         /\ collecting = u <=> phase[u] = "collecting"
  /\ sess # "terminal" =>
       \A u \in Utterances : (u \in known <=> phase[u] # "none")
                             /\ (u \in active <=> phase[u] # "none")
  /\ sess = "terminal" => active = {} /\ \A u \in Utterances : phase[u] = "none"

Bounded ==
  /\ IsFiniteSet(known) /\ Cardinality(known) <= MaxActive
  /\ IsFiniteSet(terminal) /\ Cardinality(terminal) <= MaxTerminal

\* An utterance begins with nothing played, is over once, and while the direction runs what
\* the validator counts as playable has been played; until an utterance is cancelled all that
\* arrives of it is playable.
PlayShape ==
  /\ known \cap terminal = {}
  /\ loop = "opening" => known = {}
  /\ \A u \in Utterances :
       /\ outcome[u] # NoOutcome => u \in terminal
       /\ u \notin known \cup terminal => played[u] = 0 /\ playable[u] = 0
       /\ u \notin cancelPending => wire[u] = playable[u]
       /\ loop = "running" /\ u \in known => played[u] = playable[u]
       /\ outcome[u].kind = "Completed" => played[u] = outcome[u].last

DirectionInv == TypeOK /\ SameUtterances /\ Bounded /\ PlayShape

----------------------------------------------------------------------------
(* Every step keeps the invariant.                                         *)

\* The steps that touch neither the utterances nor what was played of them, and do not take
\* the loop back.
LEMMA QuietKeeps ==
  ASSUME DirectionInv, TypeOK',
         UNCHANGED <<collecting, active, phase, sess, known, terminal, cancelPending, playable,
                     played, outcome>>,
         \A u \in Utterances : wire'[u] = wire[u] \/ u \in cancelPending,
         loop' = "running" => loop \in {"opening", "running"},
         loop' = "opening" => loop = "opening"
  PROVE  DirectionInv'
  <1>1. SameUtterances' /\ Bounded'
    BY DEF DirectionInv, SameUtterances, Bounded
  <1>2. PlayShape'
    BY DEF DirectionInv, PlayShape
  <1> QED
    BY <1>1, <1>2 DEF DirectionInv

\* An error ends the loop and changes nothing else.
LEMMA FailKeeps == DirectionInv /\ Fail => DirectionInv'
  <1> SUFFICES ASSUME DirectionInv, Fail PROVE DirectionInv'
    OBVIOUS
  <1>1. /\ loop' = "ended" /\ exit' \in {exit, "Error"}
        /\ blocked' \in BOOLEAN /\ playback' \in BOOLEAN
        /\ UNCHANGED <<captureVars, watchdogVars, validatorVars, effectVars>>
    BY DEF Fail
  <1>2. TypeOK'
    BY <1>1 DEF DirectionInv, TypeOK, captureVars, watchdogVars, validatorVars, effectVars,
                audioVars, pendingVars
  <1> QED
    BY <1>1, <1>2, QuietKeeps DEF captureVars, watchdogVars, validatorVars, effectVars,
                                  audioVars

\* A call that blocks the loop, or returns, changes nothing else.
LEMMA BlockedKeeps ==
  ASSUME DirectionInv, blocked' \in BOOLEAN,
         UNCHANGED <<loop, exit, playback, captureVars, watchdogVars, validatorVars, effectVars>>
  PROVE  DirectionInv'
  <1>1. TypeOK'
    BY DEF DirectionInv, TypeOK, captureVars, watchdogVars, validatorVars, effectVars,
           audioVars, pendingVars
  <1> QED
    BY <1>1, QuietKeeps DEF captureVars, watchdogVars, validatorVars, effectVars, audioVars

\* The requests to close, the timeouts, the faults and the end of a blocking call.
LEMMA ControlKeeps == DirectionInv /\ ControlStep => DirectionInv'
  <1> SUFFICES ASSUME DirectionInv, ControlStep PROVE DirectionInv'
    OBVIOUS
  <1>1. CASE Fail
    BY <1>1, FailKeeps
  <1>2. ASSUME NEW reason \in {"Stopped", "RestartRequired"}, BeginClose(reason)
        PROVE  DirectionInv'
    <2>1. /\ loop' = "closing" /\ exit' = reason
          /\ blocked' \in BOOLEAN /\ playback' \in BOOLEAN
          /\ UNCHANGED <<captureVars, watchdogVars, validatorVars, effectVars>>
      BY <1>2 DEF BeginClose
    <2>2. TypeOK'
      BY <2>1 DEF DirectionInv, TypeOK, captureVars, watchdogVars, validatorVars, effectVars,
                  audioVars, pendingVars
    <2> QED
      BY <2>1, <2>2, QuietKeeps DEF captureVars, watchdogVars, validatorVars, effectVars,
                                    audioVars
  <1>3. CASE Unblock
    BY <1>3, BlockedKeeps DEF Unblock
  <1> QED
    BY <1>1, <1>2, <1>3
       DEF ControlStep, Stop, GenerationStop, CloseAckTimeout, OpenTimeout, Fault

\* An utterance begins: it is known, watched and collected.
LEMMA SpeechStartedKeeps ==
  ASSUME DirectionInv, NEW u \in Utterances, NEW lag \in 0 .. CaptureLag, SpeechStarted(u, lag)
  PROVE  DirectionInv'
  <1>1. CASE Fail
    BY <1>1, FailKeeps
  <1>2. CASE ~Fail
    <2>1. /\ CanStart(u) /\ loop = "running"
          /\ speaking' = u /\ collecting' = u /\ active' = active \cup {u}
          /\ phase' = [phase EXCEPT ![u] = "collecting"]
          /\ left' = [left EXCEPT ![u] = CollectingTimeout - lag]
          /\ known' = known \cup {u} /\ blocked' \in BOOLEAN
          /\ UNCHANGED <<loop, exit, playback, sess, closeLeft, opened, closed, terminal,
                         cancelPending, audioVars, pendingVars, effectVars>>
      BY <1>2 DEF SpeechStarted, Running
    <2>2. /\ collecting = None /\ u \notin active /\ sess = "active" /\ phase[u] = "none"
          /\ u \notin terminal /\ Cardinality(known) < MaxActive
      BY <2>1 DEF CanStart
    <2>3. TypeOK /\ CollectingTimeout - lag \in Int
      BY BoundsAssumption DEF DirectionInv
    <2>4. TypeOK'
      BY <2>1, <2>3
         DEF TypeOK, Phases, loopVars, audioVars, pendingVars, effectVars
    <2>5. /\ phase'[u] = "collecting" /\ \A v \in Utterances \ {u} : phase'[v] = phase[v]
      BY <2>1, <2>3 DEF TypeOK
    <2>6. SameUtterances'
      BY <2>1, <2>2, <2>5, NoneAssumption DEF DirectionInv, SameUtterances
    <2>7. Bounded'
      <3>1. u \notin known
        BY <2>2 DEF DirectionInv, SameUtterances
      <3>2. IsFiniteSet(known) /\ Cardinality(known) \in Nat
        BY FS_CardinalityType DEF DirectionInv, Bounded
      <3>3. IsFiniteSet(known') /\ Cardinality(known') = Cardinality(known) + 1
        BY <2>1, <3>1, <3>2, FS_AddElement
      <3>4. MaxActive \in Nat
        BY BoundsAssumption
      <3>5. Cardinality(known') <= MaxActive
        BY <2>2, <3>2, <3>3, <3>4
      <3> QED
        BY <2>1, <3>3, <3>5 DEF DirectionInv, Bounded
    <2>8. PlayShape'
      BY <2>1, <2>2 DEF DirectionInv, PlayShape, SameUtterances, loopVars, audioVars, effectVars
    <2> QED
      BY <2>4, <2>6, <2>7, <2>8 DEF DirectionInv
  <1> QED
    BY <1>1, <1>2

\* An utterance's input ends: it awaits audio.
LEMMA EndOfUtteranceKeeps ==
  ASSUME DirectionInv, NEW u \in Utterances, NEW lag \in 0 .. CaptureLag, EndOfUtterance(u, lag)
  PROVE  DirectionInv'
  <1>1. CASE Fail
    BY <1>1, FailKeeps
  <1>2. CASE ~Fail
    <2>1. /\ CanEndUtterance(u, lag) /\ loop = "running"
          /\ speaking' = None /\ collecting' = None
          /\ phase' = [phase EXCEPT ![u] = "awaiting"]
          /\ left' = [left EXCEPT ![u] = FirstAudioTimeout - lag]
          /\ age' = [age EXCEPT ![u] = lag] /\ blocked' \in BOOLEAN
          /\ UNCHANGED <<loop, exit, playback, active, sess, closeLeft, opened, closed, known,
                         terminal, cancelPending, wire, playable, pendingVars, effectVars>>
      BY <1>2 DEF EndOfUtterance, Running
    <2>2. sess = "active" /\ phase[u] = "collecting" /\ collecting = u /\ TypeOK
      BY <2>1 DEF CanEndUtterance, DirectionInv
    <2>3. FirstAudioTimeout - lag \in Int /\ lag \in Nat
      BY BoundsAssumption
    <2>4. TypeOK'
      BY <2>1, <2>2, <2>3 DEF TypeOK, Phases, loopVars, pendingVars, effectVars
    <2>5. /\ phase'[u] = "awaiting" /\ \A v \in Utterances \ {u} : phase'[v] = phase[v]
      BY <2>1, <2>2 DEF TypeOK
    <2>6. SameUtterances'
      BY <2>1, <2>2, <2>5, NoneAssumption DEF DirectionInv, SameUtterances
    <2>7. Bounded' /\ PlayShape'
      BY <2>1 DEF DirectionInv, Bounded, PlayShape, loopVars, effectVars
    <2> QED
      BY <2>4, <2>6, <2>7 DEF DirectionInv
  <1> QED
    BY <1>1, <1>2

\* What the segmenter emits.
LEMMA CaptureKeeps == DirectionInv /\ CaptureStep => DirectionInv'
  BY FailKeeps, BlockedKeeps, SpeechStartedKeeps, EndOfUtteranceKeeps
     DEF CaptureStep, CaptureFrame

\* Audio of an utterance: played and counted, too old, or of a cancelled one.
LEMMA AudioDeltaKeeps ==
  ASSUME DirectionInv, NEW u \in Utterances, NEW seq \in 0 .. MaxAudio - 1, AudioDelta(u, seq)
  PROVE  DirectionInv'
  <1>1. TypeOK /\ seq + 1 \in Nat /\ InterDeltaTimeout \in Int /\ CancelTimeout \in Int
    BY BoundsAssumption DEF DirectionInv
  <1>2. CASE Play(u, seq)
    <2>1. /\ u \in known /\ u \notin terminal /\ sess = "active" /\ seq = wire[u]
          /\ phase[u] \in {"awaiting", "streaming"}
      BY <1>2 DEF Play, CanPlay, ActiveUtterance, Receiving, InTime
    <2>2. /\ wire' = [wire EXCEPT ![u] = seq + 1] /\ playable' = [playable EXCEPT ![u] = seq + 1]
          /\ phase' = [phase EXCEPT ![u] = "streaming"]
          /\ left' = [left EXCEPT ![u] = InterDeltaTimeout]
          /\ asrOnly' = None
          /\ played' = IF loop = "running" THEN [played EXCEPT ![u] = @ + 1] ELSE played
          /\ UNCHANGED <<loop, exit, captureVars, sess, closeLeft, opened, closed, known, terminal,
                         cancelPending, age, overflow, noSpeech, outcome>>
      BY <1>2 DEF Play
    <2>a. blocked' \in BOOLEAN /\ playback' \in BOOLEAN
      BY <1>1, <1>2, Zenon DEF Play, TypeOK
    <2>3. TypeOK'
      BY <1>1, <2>2, <2>a DEF TypeOK, Phases, captureVars
    <2>4. /\ phase'[u] = "streaming" /\ \A v \in Utterances \ {u} : phase'[v] = phase[v]
      BY <1>1, <2>2 DEF TypeOK
    <2>5. SameUtterances'
      BY <2>1, <2>2, <2>4 DEF DirectionInv, SameUtterances, captureVars
    <2>6. Bounded'
      BY <2>2 DEF DirectionInv, Bounded
    <2>7. PlayShape'
      <3>1. PlayShape /\ u \notin cancelPending /\ playable[u] = seq
        BY <1>2, <2>1 DEF DirectionInv, PlayShape, Play, CanPlay
      <3>2. /\ wire'[u] = seq + 1 /\ playable'[u] = seq + 1
            /\ loop = "running" => played'[u] = played[u] + 1
            /\ \A v \in Utterances \ {u} : /\ wire'[v] = wire[v] /\ playable'[v] = playable[v]
                                         /\ played'[v] = played[v]
        BY <1>1, <2>2 DEF TypeOK
      <3>3. loop # "opening" /\ loop' = loop /\ outcome[u] = NoOutcome
        BY <2>1, <2>2, <3>1 DEF PlayShape
      <3>4. ASSUME NEW v \in Utterances, v # u
            PROVE  /\ outcome'[v] # NoOutcome => v \in terminal'
                   /\ v \notin known' \cup terminal' => played'[v] = 0 /\ playable'[v] = 0
                   /\ v \notin cancelPending' => wire'[v] = playable'[v]
                   /\ loop' = "running" /\ v \in known' => played'[v] = playable'[v]
                   /\ outcome'[v].kind = "Completed" => played'[v] = outcome'[v].last
        BY <2>2, <3>1, <3>2, <3>3, <3>4 DEF PlayShape
      <3>5. loop' = "running" => played'[u] = playable'[u]
        BY <2>1, <3>1, <3>2, <3>3 DEF PlayShape
      <3>6. outcome'[u] = NoOutcome /\ NoOutcome.kind # "Completed"
        BY <2>2, <3>3 DEF NoOutcome
      <3> QED
        BY <2>1, <2>2, <3>1, <3>2, <3>3, <3>4, <3>5, <3>6 DEF PlayShape
    <2> QED
      BY <2>3, <2>5, <2>6, <2>7 DEF DirectionInv
  <1>3. CASE Expire(u, seq)
    <2>1. sess = "active" /\ phase[u] \in {"awaiting", "streaming"}
      BY <1>3 DEF Expire, CanExpire, Receiving, InTime
    <2>2. /\ wire' = [wire EXCEPT ![u] = seq + 1]
          /\ phase' = [phase EXCEPT ![u] = "cancelPending"]
          /\ left' = [left EXCEPT ![u] = CancelTimeout]
          /\ cancelPending' = cancelPending \cup {u} /\ asrOnly' = None
          /\ UNCHANGED <<loop, exit, captureVars, sess, closeLeft, opened, closed, known, terminal,
                         age, playable, overflow, noSpeech, effectVars>>
      BY <1>3 DEF Expire
    <2>a. blocked' \in BOOLEAN /\ playback' \in BOOLEAN
      BY <1>1, <1>3, Zenon DEF Expire, TypeOK
    <2>3. TypeOK'
      BY <1>1, <2>2, <2>a DEF TypeOK, Phases, captureVars, effectVars
    <2>4. /\ phase'[u] = "cancelPending" /\ \A v \in Utterances \ {u} : phase'[v] = phase[v]
      BY <1>1, <2>2 DEF TypeOK
    <2>5. SameUtterances'
      BY <2>1, <2>2, <2>4 DEF DirectionInv, SameUtterances, captureVars
    <2>6. /\ Bounded'
          /\ \A v \in Utterances \ {u} : wire'[v] = wire[v]
      BY <1>1, <2>2 DEF DirectionInv, Bounded, TypeOK
    <2>7. PlayShape'
      BY <2>2, <2>6 DEF DirectionInv, PlayShape, effectVars
    <2> QED
      BY <2>3, <2>5, <2>6, <2>7 DEF DirectionInv
  <1>4. CASE Discard(u, seq)
    <2>1. TypeOK'
      BY <1>1, <1>4 DEF Discard, TypeOK, loopVars, captureVars, watchdogVars, pendingVars,
                        effectVars
    <2>2. \A v \in Utterances : wire'[v] = wire[v] \/ v \in cancelPending
      BY <1>1, <1>4 DEF Discard, CanDiscard, TypeOK
    <2> QED
      BY <1>4, <2>1, <2>2, QuietKeeps
         DEF Discard, loopVars, captureVars, watchdogVars, effectVars
  <1>5. CASE Fail
    BY <1>5, FailKeeps
  <1> QED
    BY <1>2, <1>3, <1>4, <1>5 DEF AudioDelta

\* The events that change neither an utterance nor what was played.
LEMMA ReportsKeep ==
  /\ DirectionInv
  /\ \/ SessionOpened
     \/ \E operational \in BOOLEAN : Health(operational)
     \/ \E u \in Utterances : TextDelta(u)
     \/ \E u \in Utterances \cup {None}, b \in BOOLEAN : Latency(u, b)
     \/ \E u \in Utterances \cup {None}, code \in Codes : ProviderError(u, code)
  => DirectionInv'
  <1> SUFFICES ASSUME DirectionInv,
                 \/ SessionOpened
                 \/ \E operational \in BOOLEAN : Health(operational)
                 \/ \E u \in Utterances : TextDelta(u)
                 \/ \E u \in Utterances \cup {None}, b \in BOOLEAN : Latency(u, b)
                 \/ \E u \in Utterances \cup {None}, code \in Codes : ProviderError(u, code)
               PROVE  DirectionInv'
    OBVIOUS
  <1> USE DEF loopVars, captureVars, watchdogVars, audioVars, effectVars
  <1>1. CASE Fail
    BY <1>1, FailKeeps
  <1>2. ASSUME ~Fail, SessionOpened PROVE DirectionInv'
    <2>1. TypeOK'
      BY <1>2, ZenonT(30) DEF SessionOpened, DirectionInv, TypeOK
    <2> QED
      BY <1>2, <2>1, QuietKeeps DEF SessionOpened
  <1>3. ASSUME ~Fail, NEW operational \in BOOLEAN, Health(operational) PROVE DirectionInv'
    <2>1. TypeOK'
      BY <1>3, ZenonT(30) DEF Health, DirectionInv, TypeOK
    <2> QED
      BY <1>3, <2>1, QuietKeeps DEF Health
  <1>4. ASSUME ~Fail, NEW u \in Utterances, TextDelta(u) PROVE DirectionInv'
    <2>1. TypeOK'
      BY <1>4 DEF TextDelta, DirectionInv, TypeOK
    <2> QED
      BY <1>4, <2>1, QuietKeeps DEF TextDelta
  <1>5. ASSUME ~Fail, NEW u \in Utterances \cup {None}, NEW b \in BOOLEAN, Latency(u, b)
        PROVE  DirectionInv'
    <2>1. TypeOK'
      BY <1>5 DEF Latency, DirectionInv, TypeOK
    <2> QED
      BY <1>5, <2>1, QuietKeeps DEF Latency
  <1>6. ASSUME ~Fail, NEW u \in Utterances \cup {None}, NEW code \in Codes,
               ProviderError(u, code)
        PROVE  DirectionInv'
    <2>1. TypeOK'
      BY <1>6 DEF ProviderError, DirectionInv, TypeOK
    <2> QED
      BY <1>6, <2>1, QuietKeeps DEF ProviderError
  <1> QED
    BY <1>1, <1>2, <1>3, <1>4, <1>5, <1>6

\* An utterance that may finish is known, and so not over yet.
LEMMA FinishingIsKnown ==
  ASSUME DirectionInv, NEW u \in Utterances, NEW kind, NEW last, CanFinish(u, kind, last)
  PROVE  /\ sess = "active" /\ u \in known /\ u \notin terminal
         /\ phase[u] \notin {"none", "collecting"} /\ outcome[u] = NoOutcome
         /\ kind = "Completed" => last = playable[u]
         /\ Cardinality(terminal) < MaxTerminal
  <1>1. sess = "active" /\ phase[u] \in {"awaiting", "streaming", "cancelPending"}
    BY DEF CanFinish, Receiving, FinalInTime, InTime
  <1>2. u \in known /\ u \notin terminal /\ outcome[u] = NoOutcome
    BY <1>1 DEF DirectionInv, SameUtterances, PlayShape
  <1>3. kind = "Completed" => last = playable[u]
    BY DEF CanFinish, FinalExpected
  <1> QED
    BY <1>1, <1>2, <1>3 DEF CanFinish

\* The final of an utterance: it is forgotten everywhere and reported once.
LEMMA UtteranceFinalKeeps ==
  ASSUME DirectionInv, NEW u \in Utterances, NEW kind \in Outcomes, NEW last \in 0 .. MaxAudio,
         NEW reopen \in BOOLEAN, UtteranceFinal(u, kind, last, reopen)
  PROVE  DirectionInv'
  <1>1. CASE Fail
    BY <1>1, FailKeeps
  <1>2. CASE ~Fail
    <2>1. /\ CanFinish(u, kind, last)
          /\ phase' = [phase EXCEPT ![u] = "none"] /\ left' = [left EXCEPT ![u] = 0]
          /\ age' = [age EXCEPT ![u] = 0] /\ wire' = [wire EXCEPT ![u] = 0]
          /\ playable' = [playable EXCEPT ![u] = 0]
          /\ known' = known \ {u} /\ terminal' = terminal \cup {u}
          /\ cancelPending' = cancelPending \ {u} /\ active' = active \ {u}
          /\ overflow' \in {overflow, None} /\ noSpeech' \in {noSpeech, None}
          /\ asrOnly' \in {asrOnly, None}
          /\ outcome' = IF loop = "running"
                        THEN [outcome EXCEPT ![u] = [kind |-> kind, last |-> last]] ELSE outcome
          /\ loop' \in {loop, "closing"} /\ exit' \in {exit, "ModeChanged"}
          /\ UNCHANGED <<speaking, collecting, sess, closeLeft, opened, closed, played>>
      BY <1>2 DEF UtteranceFinal
    <2>2. /\ sess = "active" /\ u \in known /\ u \notin terminal
          /\ phase[u] \notin {"none", "collecting"} /\ outcome[u] = NoOutcome
          /\ kind = "Completed" => last = playable[u]
      BY <2>1, FinishingIsKnown
    <2>3. Cardinality(terminal) < MaxTerminal
      BY <2>1, FinishingIsKnown
    <2>4. TypeOK /\ last \in Nat /\ [kind |-> kind, last |-> last]
                                       \in [kind : Outcomes \cup {"none"}, last : Nat]
      BY BoundsAssumption DEF DirectionInv
    <2>5. TypeOK'
      <3>1. outcome' \in [Utterances -> [kind : Outcomes \cup {"none"}, last : Nat]]
        BY <2>1, <2>4 DEF TypeOK
      <3>2. /\ phase' \in [Utterances -> Phases] /\ left' \in [Utterances -> Int]
            /\ age' \in [Utterances -> Nat] /\ wire' \in [Utterances -> Nat]
            /\ playable' \in [Utterances -> Nat]
        BY <2>1, <2>4 DEF TypeOK, Phases
      <3>3. blocked' \in BOOLEAN /\ playback' \in BOOLEAN
        BY <1>2, <2>4, Zenon DEF UtteranceFinal, TypeOK
      <3> QED
        BY <2>1, <2>4, <3>1, <3>2, <3>3 DEF TypeOK
    <2>6. /\ phase'[u] = "none" /\ \A v \in Utterances \ {u} : phase'[v] = phase[v]
      BY <2>1, <2>4 DEF TypeOK
    <2>7. SameUtterances'
      BY <2>1, <2>2, <2>6 DEF DirectionInv, SameUtterances
    <2>8. Bounded'
      <3>1. IsFiniteSet(terminal) /\ Cardinality(terminal) \in Nat /\ IsFiniteSet(known)
            /\ Cardinality(known) \in Nat
        BY FS_CardinalityType DEF DirectionInv, Bounded
      <3>2. IsFiniteSet(terminal') /\ Cardinality(terminal') = Cardinality(terminal) + 1
        BY <2>1, <2>2, <3>1, FS_AddElement
      <3>3. IsFiniteSet(known') /\ Cardinality(known') = Cardinality(known) - 1
        BY <2>1, <2>2, <3>1, FS_RemoveElement
      <3>4. MaxActive \in Nat /\ MaxTerminal \in Nat
        BY BoundsAssumption
      <3>5. Cardinality(terminal') <= MaxTerminal
        BY <2>3, <3>1, <3>2, <3>4
      <3>6. Cardinality(known') <= MaxActive
        BY <3>1, <3>3, <3>4 DEF DirectionInv, Bounded
      <3> QED
        BY <3>2, <3>3, <3>5, <3>6 DEF Bounded
    <2>9. PlayShape'
      <3>1. PlayShape /\ TypeOK
        BY DEF DirectionInv
      <3>2. /\ known' \cap terminal' = {} /\ (loop' = "opening" => known' = {})
        BY <2>1, <3>1 DEF PlayShape
      <3>3. ASSUME NEW v \in Utterances, v # u
            PROVE  /\ outcome'[v] = outcome[v] /\ playable'[v] = playable[v]
                   /\ wire'[v] = wire[v]
        BY <2>1, <3>1, <3>3 DEF TypeOK
      <3>4. outcome'[u] = IF loop = "running" THEN [kind |-> kind, last |-> last] ELSE NoOutcome
        BY <2>1, <2>2, <3>1 DEF TypeOK
      <3>5. outcome'[u].kind = "Completed" => played'[u] = outcome'[u].last
        BY <2>1, <2>2, <3>1, <3>4 DEF PlayShape, NoOutcome
      <3>6. ASSUME NEW v \in Utterances, v # u
            PROVE  /\ outcome'[v] # NoOutcome => v \in terminal'
                   /\ v \notin known' \cup terminal' => played'[v] = 0 /\ playable'[v] = 0
                   /\ v \notin cancelPending' => wire'[v] = playable'[v]
                   /\ loop' = "running" /\ v \in known' => played'[v] = playable'[v]
                   /\ outcome'[v].kind = "Completed" => played'[v] = outcome'[v].last
        BY <2>1, <3>1, <3>3, <3>6 DEF PlayShape
      <3>7. u \in terminal' /\ u \notin known' /\ wire'[u] = 0 /\ playable'[u] = 0
        BY <2>1, <3>1 DEF TypeOK
      <3> QED
        BY <3>2, <3>5, <3>6, <3>7 DEF PlayShape
    <2> QED
      BY <2>5, <2>7, <2>8, <2>9 DEF DirectionInv
  <1> QED
    BY <1>1, <1>2

\* The session is over: nothing is watched.
LEMMA SessionClosedKeeps == DirectionInv /\ SessionClosed => DirectionInv'
  <1> SUFFICES ASSUME DirectionInv, SessionClosed PROVE DirectionInv'
    OBVIOUS
  <1>1. CASE Fail
    BY <1>1, FailKeeps
  <1>2. CASE ~Fail
    <2>1. /\ closed' = TRUE /\ sess' = "terminal"
          /\ phase' = [u \in Utterances |-> "none"] /\ left' = [u \in Utterances |-> 0]
          /\ active' = {} /\ collecting' = None /\ asrOnly' = None
          /\ loop' \in {loop, "ended"}
          /\ UNCHANGED <<exit, blocked, playback, speaking, closeLeft, opened, known, terminal,
                         cancelPending, audioVars, overflow, noSpeech, effectVars>>
      BY <1>2 DEF SessionClosed
    <2>2. TypeOK'
      BY <2>1 DEF DirectionInv, TypeOK, Phases, audioVars, effectVars
    <2>3. SameUtterances'
      BY <2>1 DEF SameUtterances
    <2>4. Bounded' /\ PlayShape'
      BY <2>1 DEF DirectionInv, Bounded, PlayShape, audioVars, effectVars
    <2> QED
      BY <2>2, <2>3, <2>4 DEF DirectionInv
  <1> QED
    BY <1>1, <1>2

\* What the provider sends.
LEMMA ProviderKeeps == DirectionInv /\ ProviderStep => DirectionInv'
  BY FailKeeps, ReportsKeep, AudioDeltaKeeps, UtteranceFinalKeeps, SessionClosedKeeps
     DEF ProviderStep, Malformed

\* The watchdog takes the expired utterances back from everybody, or the session closes.
LEMMA PollKeeps == DirectionInv /\ Poll => DirectionInv'
  <1> SUFFICES ASSUME DirectionInv, Poll PROVE DirectionInv'
    OBVIOUS
  <1>1. TypeOK /\ CancelTimeout \in Int /\ CloseTimeout \in Int
    BY BoundsAssumption DEF DirectionInv
  <1>2. CASE Fail
    BY <1>2, FailKeeps
  <1>3. ASSUME CancelExpired
        PROVE  /\ phase' \in [Utterances -> Phases] /\ left' \in [Utterances -> Int]
               /\ \A u \in Utterances : phase'[u] = IF u \in Expired THEN "cancelPending"
                                                    ELSE phase[u]
    BY <1>1, <1>3 DEF CancelExpired, TypeOK, Phases
  <1>4. \A u \in Expired : u \in Utterances /\ phase[u] \in {"collecting", "awaiting", "streaming"}
    BY DEF Expired
  <1>5. CASE PollCancel /\ ~Fail
    <2>1. /\ sess = "active" /\ CancelExpired /\ cancelPending' = cancelPending \cup Expired
          /\ collecting' = IF collecting \in Expired THEN None ELSE collecting
          /\ blocked' \in BOOLEAN /\ playback' \in BOOLEAN
          /\ UNCHANGED <<loop, exit, speaking, active, sess, closeLeft, opened, closed, known,
                         terminal, audioVars, pendingVars, effectVars>>
      BY <1>5 DEF PollCancel, Released, PurgeAndSend
    <2>2. TypeOK'
      BY <1>1, <1>3, <1>4, <2>1 DEF TypeOK, loopVars, audioVars, pendingVars, effectVars
    <2>3. SameUtterances'
      BY <1>3, <1>4, <2>1, NoneAssumption DEF DirectionInv, SameUtterances
    <2>4. Bounded' /\ PlayShape'
      BY <2>1 DEF DirectionInv, Bounded, PlayShape, loopVars, audioVars, effectVars
    <2> QED
      BY <2>2, <2>3, <2>4 DEF DirectionInv
  <1>6. CASE PollClose
    <2>1. /\ sess = "active" /\ CancelExpired /\ sess' = "closePending"
          /\ closeLeft' = CloseTimeout
          /\ blocked' \in BOOLEAN /\ playback' \in BOOLEAN
          /\ UNCHANGED <<loop, exit, captureVars, validatorVars, effectVars>>
      BY <1>6 DEF PollClose, PurgeAndSend
    <2>2. TypeOK'
      BY <1>1, <1>3, <2>1
         DEF TypeOK, loopVars, captureVars, validatorVars, audioVars, pendingVars, effectVars
    <2>3. SameUtterances'
      BY <1>3, <1>4, <2>1 DEF DirectionInv, SameUtterances, captureVars, validatorVars
    <2>4. Bounded' /\ PlayShape'
      BY <2>1 DEF DirectionInv, Bounded, PlayShape, loopVars, validatorVars, audioVars,
                  effectVars
    <2> QED
      BY <2>2, <2>3, <2>4 DEF DirectionInv
  <1>7. CASE PollRestart
    <2>1. /\ sess = "closePending" /\ sess' = "restartIssued" /\ loop' = "ended"
          /\ exit' = "RestartRequired" /\ playback' \in BOOLEAN
          /\ UNCHANGED <<blocked, captureVars, phase, left, closeLeft, validatorVars, effectVars>>
      BY <1>7 DEF PollRestart
    <2>2. TypeOK'
      BY <1>1, <2>1
         DEF TypeOK, captureVars, validatorVars, audioVars, pendingVars, effectVars
    <2>3. SameUtterances'
      BY <2>1 DEF DirectionInv, SameUtterances, captureVars, validatorVars
    <2>4. Bounded' /\ PlayShape'
      BY <2>1 DEF DirectionInv, Bounded, PlayShape, validatorVars, audioVars, effectVars
    <2> QED
      BY <2>2, <2>3, <2>4 DEF DirectionInv
  <1> QED
    BY <1>2, <1>5, <1>6, <1>7 DEF Poll

\* Time passes.
LEMMA TickKeeps == DirectionInv /\ Tick => DirectionInv'
  <1> SUFFICES ASSUME DirectionInv, Tick PROVE DirectionInv'
    OBVIOUS
  <1>1. TypeOK
    BY DEF DirectionInv
  <1>2. \A n \in Int : Down(n) \in Int
    BY BoundsAssumption DEF Down
  <1>3. left' \in [Utterances -> Int] /\ closeLeft' \in Int
    BY <1>1, <1>2 DEF Tick, TypeOK
  <1>4. age' \in [Utterances -> Nat]
    BY <1>1, BoundsAssumption DEF Tick, TypeOK
  <1>5. TypeOK'
    BY <1>1, <1>3, <1>4 DEF Tick, TypeOK, loopVars, captureVars, pendingVars, effectVars
  <1> QED
    BY <1>5, QuietKeeps DEF Tick, loopVars, captureVars, effectVars

----------------------------------------------------------------------------
(* The theorems.                                                           *)

\* A direction begins without utterances, and every step keeps the invariant.
LEMMA DirectionInvariant ==
  /\ Init => DirectionInv
  /\ DirectionInv /\ [Next]_vars => DirectionInv'
  <1>1. Init => DirectionInv
    <2> SUFFICES ASSUME Init PROVE DirectionInv
      OBVIOUS
    <2>1. TypeOK
      <3>1. NoOutcome \in [kind : Outcomes \cup {"none"}, last : Nat]
        BY DEF NoOutcome
      <3>2. outcome \in [Utterances -> [kind : Outcomes \cup {"none"}, last : Nat]]
        BY <3>1 DEF Init
      <3>3. /\ phase \in [Utterances -> Phases] /\ left \in [Utterances -> Int]
            /\ age \in [Utterances -> Nat] /\ wire \in [Utterances -> Nat]
            /\ playable \in [Utterances -> Nat] /\ played \in [Utterances -> Nat]
        BY DEF Init, Phases
      <3>4. /\ active \subseteq Utterances /\ known \subseteq Utterances
            /\ terminal \subseteq Utterances /\ cancelPending \subseteq Utterances
            /\ opened \in BOOLEAN /\ closed \in BOOLEAN
            /\ blocked \in BOOLEAN /\ playback \in BOOLEAN
        BY DEF Init
      <3>5. /\ loop = "opening" /\ exit = "none" /\ speaking = None /\ collecting = None
            /\ sess = "active" /\ closeLeft = 0
            /\ overflow = None /\ noSpeech = None /\ asrOnly = None
        BY DEF Init
      <3> QED
        BY <3>2, <3>3, <3>4, <3>5 DEF TypeOK
    <2>2. SameUtterances
      BY NoneAssumption DEF Init, SameUtterances
    <2>3. Bounded
      BY FS_EmptySet, BoundsAssumption DEF Init, Bounded
    <2>4. PlayShape
      BY DEF Init, PlayShape, NoOutcome
    <2> QED
      BY <2>1, <2>2, <2>3, <2>4 DEF DirectionInv
  <1>2. ASSUME DirectionInv, UNCHANGED vars PROVE DirectionInv'
    <2>1. TypeOK'
      BY <1>2 DEF DirectionInv, TypeOK, vars, loopVars, captureVars, watchdogVars,
                  validatorVars, audioVars, pendingVars, effectVars
    <2> QED
      BY <1>2, <2>1, QuietKeeps
         DEF vars, loopVars, captureVars, watchdogVars, validatorVars, audioVars, effectVars
  <1> QED
    BY <1>1, <1>2, CaptureKeeps, ProviderKeeps, ControlKeeps, PollKeeps, TickKeeps DEF Next

\* Whatever the provider sends and however many utterances overlap, time out or are
\* cancelled, the session, the watchdog and the validator agree on them while the session is
\* active, and every variable keeps its type.
THEOREM SessionAgrees == Spec => []Agreement
  <1>1. DirectionInv => Agreement
    BY DEF DirectionInv, SameUtterances, Agreement
  <1> QED
    BY <1>1, DirectionInvariant, PTL DEF Spec

\* The limits that only the validator checks bound the maps of all three, for any limits.
THEOREM CapacityIsKept == Spec => []WithinCapacity
  <1>1. DirectionInv => WithinCapacity
    <2> SUFFICES ASSUME DirectionInv PROVE WithinCapacity
      OBVIOUS
    <2> DEFINE Watched == {u \in Utterances : phase[u] # "none"}
    <2>1. /\ IsFiniteSet(known) /\ Cardinality(known) <= MaxActive
          /\ known \subseteq Utterances /\ active \subseteq Utterances
      BY DEF DirectionInv, Bounded, TypeOK
    <2>2. MaxActive \in Nat /\ Cardinality(known) \in Nat
      BY <2>1, BoundsAssumption, FS_CardinalityType
    <2>3. Watched \subseteq known /\ active \subseteq known
      BY <2>1 DEF DirectionInv, SameUtterances
    <2> HIDE DEF Watched
    <2>4. /\ Cardinality(Watched) \in Nat /\ Cardinality(Watched) <= Cardinality(known)
          /\ Cardinality(active) \in Nat /\ Cardinality(active) <= Cardinality(known)
      BY <2>1, <2>3, FS_Subset, FS_CardinalityType
    <2>5. Cardinality(Watched) <= MaxActive /\ Cardinality(active) <= MaxActive
      BY <2>1, <2>2, <2>4
    <2> QED
      BY <2>5 DEF DirectionInv, Bounded, WithinCapacity, Watched
  <1> QED
    BY <1>1, DirectionInvariant, PTL DEF Spec

\* An utterance is reported completed only when every frame that the provider counts was
\* written to the playback device, once.
THEOREM CompletedWasPlayed == Spec => []CompletedMeansPlayed
  <1>1. DirectionInv => CompletedMeansPlayed
    BY DEF DirectionInv, PlayShape, CompletedMeansPlayed
  <1> QED
    BY <1>1, DirectionInvariant, PTL DEF Spec

\* The observers are told one outcome of an utterance, whatever the provider sends after it.
THEOREM OutcomesAreFinal == Spec => OutcomeIsFinal
  <1> DEFINE Final == \A u \in Utterances : outcome[u] # NoOutcome => outcome'[u] = outcome[u]
  <1>1. DirectionInv /\ [Next]_vars => [Final]_vars
    <2> SUFFICES ASSUME DirectionInv, Next, NEW v \in Utterances, outcome[v] # NoOutcome
                 PROVE  outcome'[v] = outcome[v]
      OBVIOUS
    <2>1. CASE outcome' = outcome
      BY <2>1
    <2>2. CASE Fail
      BY <2>2 DEF Fail, effectVars
    <2>3. ASSUME NEW u \in Utterances, NEW kind \in Outcomes, NEW last \in 0 .. MaxAudio,
                 NEW reopen \in BOOLEAN, UtteranceFinal(u, kind, last, reopen), ~Fail
          PROVE  outcome'[v] = outcome[v]
      <3>1. CanFinish(u, kind, last)
        BY <2>3 DEF UtteranceFinal
      <3>2. u # v
        BY <3>1, FinishingIsKnown
      <3>3. \/ outcome' = outcome
            \/ outcome' = [outcome EXCEPT ![u] = [kind |-> kind, last |-> last]]
        BY <2>3 DEF UtteranceFinal
      <3> QED
        BY <3>2, <3>3 DEF DirectionInv, TypeOK
    <2>4. CASE CaptureStep \/ ControlStep \/ Poll \/ Tick
      BY <2>1, <2>2, <2>4
         DEF CaptureStep, ControlStep, Poll, Tick, SpeechStarted, EndOfUtterance, CaptureFrame,
             Stop, GenerationStop, BeginClose, CloseAckTimeout, OpenTimeout, Fault, Unblock,
             PollCancel, PollClose, PollRestart, effectVars
    <2>5. CASE ProviderStep
      BY <2>1, <2>2, <2>3, <2>5
         DEF ProviderStep, Malformed, SessionOpened, Health, AudioDelta, Play, Expire, Discard,
             TextDelta, Latency, ProviderError, SessionClosed, effectVars
    <2> QED
      BY <2>4, <2>5 DEF Next
  <1> QED
    BY <1>1, DirectionInvariant, PTL DEF Spec, OutcomeIsFinal
==============================================================================
