------------------------ MODULE DuplexRuntime_proofs ------------------------
(***************************************************************************)
(* Theorems about DuplexRuntime, for every set of threads and holders and  *)
(* every budget: types, the lease of the handle, the ownership of the      *)
(* threads it spawned, and how a generation of directions may end.         *)
(***************************************************************************)
EXTENDS DuplexRuntime, TLAPS

\* Who owns a thread follows from what the handle is doing: a call in progress has a
\* callee and excludes an active runtime, and a call that ends a thread has told it so.
Ownership ==
  /\ call = "idle" <=> callee = None
  /\ active # None => call = "idle"
  /\ call \in {"joining", "stopping"} => stop[callee]

DuplexInv == DuplexTypeOK /\ LeaseFollowsHandle /\ Ownership /\ OrphansAreStopping

\* The steps of the threads and the directions, which leave the handle alone.
Inner(r) ==
  \/ ThreadStep(r) \/ SidecarCrash(r)
  \/ \E d \in launched[r] :
       \/ ChangeMode(r, d) \/ SpeechStarted(r, d) \/ UtteranceTerminal(r, d)
       \/ DirectionStep(r, d) \/ Fails(r, d) \/ WatchdogRestart(r, d)
       \/ Hang(r, d) \/ HungCallBreaks(r, d)

\* The calls of the handle and the other clients of the gate.
Outer ==
  \/ StartBypass \/ StopBypass \/ StopCall \/ HandleReturns \/ OtherClient
  \/ \E r \in Runtimes, ds \in SUBSET Directions : Start(r, ds)

\* A step of the specification is a call of the handle or a step of one thread.
LEMMA NextSplits == Next => Outer \/ \E r \in Runtimes : Inner(r)
  BY DEF Next, Outer, Inner

\* The initial state has the types.
LEMMA InitTypeOK == Init => DuplexTypeOK
<1> SUFFICES ASSUME Init PROVE DuplexTypeOK
  OBVIOUS
<1>1. restarts \in [Runtimes -> 0..MaxRestarts] /\ open \in [Runtimes -> [Directions -> Nat]]
  BY DuplexAssumption, SMT DEF DuplexAssumption, Init
<1>2. /\ operating \subseteq Holders /\ stopping \in BOOLEAN
      /\ active \in Runtimes \cup {None, Bypass} /\ callee \in Runtimes \cup {None}
      /\ launched \in [Runtimes -> SUBSET Directions]
  BY DEF Init, AInit
<1>3. /\ at = [r \in Runtimes |-> "unborn"] /\ ack = [r \in Runtimes |-> "none"]
      /\ first = [r \in Runtimes |-> "none"] /\ call = "idle"
      /\ loop = [r \in Runtimes |-> [d \in Directions |-> "off"]]
      /\ exit = [r \in Runtimes |-> [d \in Directions |-> "none"]]
  BY DEF Init
<1>4. /\ busy \in [Runtimes -> [Directions -> BOOLEAN]]
      /\ stuck \in [Runtimes -> [Directions -> BOOLEAN]]
      /\ differs \in [Runtimes -> [Directions -> BOOLEAN]]
  BY DEF Init
<1>5. /\ stop \in [Runtimes -> BOOLEAN] /\ sidecar \in [Runtimes -> BOOLEAN]
      /\ reopen \in [Runtimes -> BOOLEAN] /\ genStop \in [Runtimes -> BOOLEAN]
      /\ trouble \in [Runtimes -> BOOLEAN] /\ hung \in [Runtimes -> BOOLEAN]
  BY DEF Init
<1> QED BY <1>1, <1>2, <1>3, <1>4, <1>5 DEF DuplexTypeOK

\* The calls of the handle keep the types.
LEMMA OuterTypeOK == ASSUME DuplexTypeOK, Outer PROVE DuplexTypeOK'
<1> USE DuplexAssumption DEF DuplexTypeOK, StopSeen
<1>1. CASE StartBypass
  BY <1>1 DEF StartBypass, Admit, threadVars, directionVars, generationVars
<1>2. CASE StopBypass
  BY <1>2 DEF StopBypass, Finish, threadVars, directionVars, generationVars
<1>3. CASE StopCall
  BY <1>3 DEF StopCall, directionVars, generationVars
<1>4. CASE HandleReturns
  <2>1. CASE StartAcknowledged
    BY <2>1 DEF StartAcknowledged, threadVars, directionVars, generationVars
  <2>2. CASE StartRefused
    BY <2>2 DEF StartRefused, directionVars, generationVars
  <2>3. CASE Joined
    BY <2>3 DEF Joined, Finish, threadVars, directionVars, generationVars
  <2>4. CASE StopReturns
    BY <2>4 DEF StopReturns, Finish, threadVars, directionVars, generationVars
  <2>5. CASE StopTimeout
    BY <2>5 DEF StopTimeout, Finish, threadVars, directionVars, generationVars
  <2> QED BY <1>4, <2>1, <2>2, <2>3, <2>4, <2>5 DEF HandleReturns
<1>5. CASE OtherClient
  BY <1>5 DEF OtherClient, Admit, Finish, Stop, threadVars, directionVars, generationVars
<1>6. ASSUME NEW r \in Runtimes, NEW ds \in SUBSET Directions, Start(r, ds) PROVE DuplexTypeOK'
  BY <1>6 DEF Start, Admit, directionVars, generationVars
<1> QED BY <1>1, <1>2, <1>3, <1>4, <1>5, <1>6 DEF Outer

\* The steps of a thread outside of its directions keep the types.
LEMMA ThreadTypeOK ==
  ASSUME DuplexTypeOK, NEW r \in Runtimes, ThreadStep(r) \/ SidecarCrash(r) PROVE DuplexTypeOK'
<1> USE DuplexAssumption DEF DuplexTypeOK, StopSeen, handleVars
<1>1. CASE LaunchFails(r)
  BY <1>1 DEF LaunchFails, End, directionVars, generationVars
<1>2. CASE LaunchReady(r)
  BY <1>2 DEF LaunchReady, directionVars, generationVars
<1>3. CASE StopAtTop(r)
  BY <1>3 DEF StopAtTop, End, directionVars, generationVars
<1>4. CASE Prepare(r)
  BY <1>4 DEF Prepare, directionVars, generationVars
<1>5. CASE PrepareFails(r)
  BY <1>5 DEF PrepareFails, End, directionVars, generationVars
<1>6. CASE RegisterFails(r)
  BY <1>6 DEF RegisterFails, End, directionVars, generationVars
<1>7. CASE Prepared(r)
  BY <1>7 DEF Prepared
<1>8. CASE StopFirst(r)
  BY <1>8 DEF StopFirst, threadVars, directionVars
<1>9. CASE EndStopped(r)
  BY <1>9 DEF EndStopped, End, directionVars, generationVars
<1>10. CASE PolicyReopen(r)
  <2> DEFINE fresh == [d \in Directions |-> IF d \in launched[r] THEN FALSE ELSE differs[r][d]]
  <2>0. differs \in [Runtimes -> [Directions -> BOOLEAN]]
    OBVIOUS
  <2>f. fresh \in [Directions -> BOOLEAN]
    <3>1. \A d \in Directions : differs[r][d] \in BOOLEAN
      BY <2>0
    <3> QED BY <3>1
  <2>d. differs' = [differs EXCEPT ![r] = fresh]
    BY <1>10, Zenon DEF PolicyReopen
  <2> HIDE DEF fresh
  <2>1. differs' \in [Runtimes -> [Directions -> BOOLEAN]]
    BY <2>0, <2>f, <2>d, Zenon
  <2>2. at' \in [Runtimes -> {"unborn", "launching", "top", "preparing", "running", "restarting",
                              "done"}]
    BY <1>10 DEF PolicyReopen
  <2> QED BY <1>10, <2>1, <2>2 DEF PolicyReopen, directionVars, generationVars
<1>11. CASE FaultRestart(r)
  BY <1>11 DEF FaultRestart, RestartsLeft, directionVars, generationVars
<1>12. CASE GiveUp(r)
  BY <1>12 DEF GiveUp, End, directionVars, generationVars
<1>13. CASE RestartReady(r)
  BY <1>13 DEF RestartReady, directionVars
<1>14. CASE RestartFails(r)
  BY <1>14 DEF RestartFails, End, directionVars, generationVars
<1>15. CASE SidecarCrash(r)
  BY <1>15 DEF SidecarCrash, directionVars, generationVars
<1> QED BY <1>1, <1>2, <1>3, <1>4, <1>5, <1>6, <1>7, <1>8, <1>9, <1>10, <1>11, <1>12, <1>13,
           <1>14, <1>15 DEF ThreadStep

\* A direction that returns keeps the types.
LEMMA ReturnsTypeOK ==
  ASSUME DuplexTypeOK, NEW r \in Runtimes, NEW d \in Directions,
         NEW how \in {"Stopped", "RestartRequired", "ModeChanged", "Error", "none"},
         Returns(r, d, how),
         trouble' \in [Runtimes -> BOOLEAN], hung' \in [Runtimes -> BOOLEAN]
  PROVE  DuplexTypeOK'
<1> USE DuplexAssumption DEF DuplexTypeOK, StopSeen, handleVars, threadVars
<1>1. loop' \in [Runtimes -> [Directions -> {"off", "running", "closing", "exited"}]]
  BY DEF Returns
<1>2. exit' \in [Runtimes -> [Directions ->
                   {"none", "Stopped", "RestartRequired", "ModeChanged", "Error"}]]
  BY DEF Returns
<1>3. first' \in [Runtimes -> Directions \cup {"none", "stop"}]
  BY DEF Returns
<1>4. genStop' \in [Runtimes -> BOOLEAN]
  BY Zenon DEF Returns
<1>5. stuck' \in [Runtimes -> [Directions -> BOOLEAN]]
  BY DEF Returns
<1> QED BY <1>1, <1>2, <1>3, <1>4, <1>5 DEF Returns

\* The steps of a direction keep the types.
LEMMA DirectionTypeOK ==
  ASSUME DuplexTypeOK, NEW r \in Runtimes, NEW d \in launched[r],
         \/ ChangeMode(r, d) \/ SpeechStarted(r, d) \/ UtteranceTerminal(r, d)
         \/ DirectionStep(r, d) \/ Fails(r, d) \/ WatchdogRestart(r, d)
         \/ Hang(r, d) \/ HungCallBreaks(r, d)
  PROVE  DuplexTypeOK'
<1>d. d \in Directions
  BY DEF DuplexTypeOK
<1>1. CASE ChangeMode(r, d)
  BY <1>d, <1>1 DEF ChangeMode, DuplexTypeOK, StopSeen, handleVars, threadVars, directionVars, generationVars
<1>2. CASE SpeechStarted(r, d)
  BY <1>d, <1>2, DuplexAssumption DEF DuplexAssumption, SpeechStarted, DuplexTypeOK, StopSeen, handleVars, threadVars, generationVars
<1>3. CASE UtteranceTerminal(r, d)
  <2>1. open' \in [Runtimes -> [Directions -> Nat]]
    BY <1>d, <1>3, DuplexAssumption DEF DuplexAssumption, UtteranceTerminal, DuplexTypeOK
  <2>2. busy' \in [Runtimes -> [Directions -> BOOLEAN]]
    BY <1>d, <1>3 DEF UtteranceTerminal, DuplexTypeOK, FlagAfterTerminal
  <2>3. reopen' \in [Runtimes -> BOOLEAN]
    BY <1>d, <1>3, Zenon DEF UtteranceTerminal, DuplexTypeOK
  <2>4. loop' \in [Runtimes -> [Directions -> {"off", "running", "closing", "exited"}]]
    BY <1>d, <1>3 DEF UtteranceTerminal, DuplexTypeOK
  <2>5. exit' \in [Runtimes -> [Directions ->
                     {"none", "Stopped", "RestartRequired", "ModeChanged", "Error"}]]
    BY <1>d, <1>3 DEF UtteranceTerminal, DuplexTypeOK
  <2> QED BY <1>3, <2>1, <2>2, <2>3, <2>4, <2>5
          DEF UtteranceTerminal, DuplexTypeOK, StopSeen, handleVars, threadVars
<1>4. CASE StopNoticed(r, d) \/ GenerationStopNoticed(r, d)
  <2>1. PICK how \in {"Stopped", "RestartRequired"} : Closes(r, d, how)
    BY <1>4 DEF StopNoticed, GenerationStopNoticed
  <2>2. loop' \in [Runtimes -> [Directions -> {"off", "running", "closing", "exited"}]]
    BY <1>d, <2>1 DEF Closes, DuplexTypeOK
  <2>3. exit' \in [Runtimes -> [Directions ->
                     {"none", "Stopped", "RestartRequired", "ModeChanged", "Error"}]]
    BY <1>d, <2>1 DEF Closes, DuplexTypeOK
  <2> QED BY <2>1, <2>2, <2>3 DEF Closes, DuplexTypeOK, StopSeen, handleVars, threadVars, generationVars
<1>5. CASE Closed(r, d)
  <2>1. exit[r][d] \in {"Stopped", "RestartRequired", "ModeChanged", "Error", "none"}
    BY <1>d DEF DuplexTypeOK
  <2>2. trouble' \in [Runtimes -> BOOLEAN] /\ hung' \in [Runtimes -> BOOLEAN]
    BY <1>5 DEF Closed, DuplexTypeOK
  <2> QED BY <1>d, <1>5, <2>1, <2>2, ReturnsTypeOK DEF Closed
<1>6. CASE CloseFails(r, d) \/ Fails(r, d)
  <2>1. Returns(r, d, "Error") /\ trouble' = [trouble EXCEPT ![r] = TRUE] /\ hung' = hung
    BY <1>6, Zenon DEF CloseFails, Fails
  <2>2. trouble' \in [Runtimes -> BOOLEAN] /\ hung' \in [Runtimes -> BOOLEAN]
    BY <2>1 DEF DuplexTypeOK
  <2> QED BY <1>d, <2>1, <2>2, ReturnsTypeOK
<1>7. CASE WatchdogRestart(r, d)
  BY <1>d, <1>7, ReturnsTypeOK DEF WatchdogRestart, DuplexTypeOK
<1>8. CASE Hang(r, d) \/ HungCallBreaks(r, d)
  <2>1. stuck' \in [Runtimes -> [Directions -> BOOLEAN]]
    <3>1. PICK b \in BOOLEAN : stuck' = [stuck EXCEPT ![r][d] = b]
      BY <1>8, Zenon DEF Hang, HungCallBreaks
    <3> QED BY <1>d, <3>1 DEF DuplexTypeOK
  <2> QED BY <1>8, <2>1
          DEF Hang, HungCallBreaks, DuplexTypeOK, StopSeen, handleVars, threadVars, generationVars
<1> QED BY <1>1, <1>2, <1>3, <1>4, <1>5, <1>6, <1>7, <1>8 DEF DirectionStep

\* The types hold for every number of threads, every budget and every bound.
THEOREM DuplexTypeCorrect == Spec => []DuplexTypeOK
<1>1. Init => DuplexTypeOK
  BY InitTypeOK
<1>2. DuplexTypeOK /\ [Next]_vars => DuplexTypeOK'
  <2> SUFFICES ASSUME DuplexTypeOK, [Next]_vars PROVE DuplexTypeOK'
    OBVIOUS
  <2>1. CASE Outer
    BY <2>1, OuterTypeOK
  <2>2. ASSUME NEW r \in Runtimes, Inner(r) PROVE DuplexTypeOK'
    BY <2>2, ThreadTypeOK, DirectionTypeOK DEF Inner
  <2>3. CASE UNCHANGED vars
    BY <2>3 DEF DuplexTypeOK, vars, handleVars, threadVars, directionVars, generationVars
  <2> QED BY <2>1, <2>2, <2>3, NextSplits
<1> QED BY <1>1, <1>2, PTL DEF Spec

-----------------------------------------------------------------------------
\* A step of a thread or a direction touches neither the handle nor a stop channel, and
\* brings no thread to life.
LEMMA InnerLeavesHandle ==
  ASSUME DuplexTypeOK, NEW r \in Runtimes, Inner(r)
  PROVE  /\ UNCHANGED <<handleVars, stop>>
         /\ \A s \in Runtimes : Alive(s)' => Alive(s)
<1>1. CASE ThreadStep(r) \/ SidecarCrash(r)
  <2>1. UNCHANGED <<handleVars, stop>>
    BY <1>1, Zenon
    DEF ThreadStep, SidecarCrash, LaunchFails, LaunchReady, StopAtTop, Prepare, PrepareFails,
        RegisterFails, Prepared, StopFirst, EndStopped, PolicyReopen, FaultRestart, GiveUp,
        RestartReady, RestartFails, End, threadVars
  <2>2. \/ UNCHANGED at
        \/ /\ at[r] # "unborn"
           /\ \E p \in {"top", "preparing", "running", "restarting", "done"} :
                at' = [at EXCEPT ![r] = p]
    BY <1>1
    DEF ThreadStep, SidecarCrash, LaunchFails, LaunchReady, StopAtTop, Prepare, PrepareFails,
        RegisterFails, Prepared, StopFirst, EndStopped, PolicyReopen, FaultRestart, GiveUp,
        RestartReady, RestartFails, End, GenerationOver, OpensReturned, threadVars
  <2>3. Alive(r)' => Alive(r)
    <3>1. CASE at[r] = "done"
      BY <1>1, <3>1
      DEF ThreadStep, SidecarCrash, LaunchFails, LaunchReady, StopAtTop, Prepare, PrepareFails,
          RegisterFails, Prepared, StopFirst, EndStopped, PolicyReopen, FaultRestart, GiveUp,
          RestartReady, RestartFails, GenerationOver, OpensReturned, Alive
    <3> QED BY <2>2, <3>1 DEF Alive, DuplexTypeOK
  <2> QED BY <2>1, <2>2, <2>3 DEF Alive, DuplexTypeOK
<1>2. ASSUME NEW d \in launched[r],
             \/ ChangeMode(r, d) \/ SpeechStarted(r, d) \/ UtteranceTerminal(r, d)
             \/ DirectionStep(r, d) \/ Fails(r, d) \/ WatchdogRestart(r, d)
             \/ Hang(r, d) \/ HungCallBreaks(r, d)
      PROVE  UNCHANGED <<handleVars, stop, at>>
  BY <1>2, Zenon
  DEF ChangeMode, SpeechStarted, UtteranceTerminal, DirectionStep, StopNoticed, GenerationStopNoticed,
      Closes, Closed, CloseFails, Fails, WatchdogRestart, Returns, Hang, HungCallBreaks, threadVars
<1> QED BY <1>1, <1>2 DEF Inner, Alive

\* The invariant is inductive over the calls of the handle.
LEMMA OuterOwnership ==
  ASSUME DuplexInv, Outer
  PROVE  (LeaseFollowsHandle /\ Ownership /\ OrphansAreStopping)'
<1> USE DuplexAssumption
    DEF DuplexAssumption, DuplexInv, LeaseFollowsHandle, Ownership, OrphansAreStopping, Alive, DuplexTypeOK
<1>1. CASE StartBypass
  BY <1>1 DEF StartBypass, Admit, threadVars
<1>2. CASE StopBypass
  BY <1>2 DEF StopBypass, Finish, threadVars
<1>3. CASE StopCall
  BY <1>3 DEF StopCall
<1>4. CASE StartAcknowledged
  BY <1>4 DEF StartAcknowledged, threadVars
<1>5. CASE StartRefused
  BY <1>5 DEF StartRefused
<1>6. CASE Joined
  BY <1>6 DEF Joined, Finish, threadVars
<1>7. CASE StopReturns \/ StopTimeout
  BY <1>7 DEF StopReturns, StopTimeout, Finish, threadVars
<1>8. CASE OtherClient
  BY <1>8 DEF OtherClient, Admit, Finish, Stop, threadVars
<1>9. ASSUME NEW r \in Runtimes, NEW ds \in SUBSET Directions, Start(r, ds)
      PROVE (LeaseFollowsHandle /\ Ownership /\ OrphansAreStopping)'
  BY <1>9 DEF Start, Admit
<1> QED BY <1>1, <1>2, <1>3, <1>4, <1>5, <1>6, <1>7, <1>8, <1>9 DEF Outer, HandleReturns

\* DuplexInv is an inductive invariant of the runtime.
LEMMA DuplexInvariance == Spec => []DuplexInv
<1>1. Init => DuplexInv
  BY InitTypeOK
  DEF Init, AInit, DuplexInv, LeaseFollowsHandle, Ownership, OrphansAreStopping, Alive
<1>2. DuplexInv /\ [Next]_vars => (LeaseFollowsHandle /\ Ownership /\ OrphansAreStopping)'
  <2> SUFFICES ASSUME DuplexInv, [Next]_vars
               PROVE (LeaseFollowsHandle /\ Ownership /\ OrphansAreStopping)'
    OBVIOUS
  <2>1. CASE Outer
    BY <2>1, OuterOwnership
  <2>2. ASSUME NEW r \in Runtimes, Inner(r)
        PROVE (LeaseFollowsHandle /\ Ownership /\ OrphansAreStopping)'
    BY <2>2, InnerLeavesHandle
    DEF DuplexInv, LeaseFollowsHandle, Ownership, OrphansAreStopping, handleVars
  <2>3. CASE UNCHANGED vars
    BY <2>3 DEF vars, handleVars, threadVars, DuplexInv, LeaseFollowsHandle, Ownership,
                OrphansAreStopping, Alive
  <2> QED BY <2>1, <2>2, <2>3, NextSplits
<1> QED BY <1>1, <1>2, DuplexTypeCorrect, PTL DEF Spec, DuplexInv

\* The handle holds the production lease exactly while it has a runtime or a call is in
\* progress (DuplexRuntimeHandle::start, stop_active).
THEOREM DuplexLease == Spec => []LeaseFollowsHandle
  BY DuplexInvariance, PTL DEF DuplexInv

\* A thread that neither the handle nor a call owns has been told to stop
\* (ProcessActiveDuplex::stop and Drop, start_launch).
THEOREM DuplexOrphans == Spec => []OrphansAreStopping
  BY DuplexInvariance, PTL DEF DuplexInv
-----------------------------------------------------------------------------
\* Before a thread has run a generation, and after one is over, no direction task runs.
TasksAreIn(r) ==
  /\ at[r] = "unborn" => \A d \in Directions : loop[r][d] = "off"
  /\ at[r] # "running" => \A d \in launched[r] : loop[r][d] \in {"off", "exited"}

\* Why a direction closes or has ended: told by the stop channel, told by its peer,
\* because of a policy, or in trouble.
EndsHaveReasons(r) ==
  \A d \in launched[r] :
    /\ loop[r][d] = "closing" => exit[r][d] \in {"Stopped", "RestartRequired", "ModeChanged"}
    /\ loop[r][d] = "exited" =>
         exit[r][d] \in {"Stopped", "RestartRequired", "ModeChanged", "Error"}
    /\ loop[r][d] \in {"closing", "exited"} =>
         /\ exit[r][d] = "Stopped" => stop[r]
         /\ exit[r][d] = "RestartRequired" => genStop[r] \/ trouble[r]
         /\ exit[r][d] = "Error" => trouble[r]

\* The direction that ended first ended for a reason of its own: no peer had told it to.
FirstHasReason(r) ==
  /\ genStop[r] => first[r] # "none"
  /\ first[r] = StopSeen => stop[r]
  /\ first[r] \notin {"none", StopSeen} =>
       /\ first[r] \in launched[r] /\ loop[r][first[r]] = "exited"
       /\ exit[r][first[r]] = "RestartRequired" => trouble[r]

Generation(r) ==
  TasksAreIn(r) /\ (at[r] = "running" => EndsHaveReasons(r) /\ FirstHasReason(r))

GenerationInv == DuplexTypeOK /\ \A r \in Runtimes : Generation(r)

\* A step that leaves the generation of a thread alone; the thread may be told to stop.
Kept(r) ==
  /\ at'[r] = at[r] /\ launched'[r] = launched[r] /\ (stop[r] => stop'[r])
  /\ loop'[r] = loop[r] /\ exit'[r] = exit[r]
  /\ genStop'[r] = genStop[r] /\ first'[r] = first[r] /\ trouble'[r] = trouble[r]

\* Such a step keeps what is known of the generation.
LEMMA KeptKeeps == ASSUME NEW r \in Runtimes, Generation(r), Kept(r) PROVE Generation(r)'
  BY DEF Kept, Generation, TasksAreIn, EndsHaveReasons, FirstHasReason, StopSeen

\* No generation has begun in the initial state.
LEMMA InitGeneration == Init => \A r \in Runtimes : Generation(r)
  BY DEF Init, Generation, TasksAreIn

\* The calls of the handle leave the generations alone, and a new thread has none.
LEMMA OuterGeneration ==
  ASSUME GenerationInv, Outer PROVE \A s \in Runtimes : Generation(s)'
<1> SUFFICES ASSUME NEW s \in Runtimes PROVE Generation(s)'
  OBVIOUS
<1>t. DuplexTypeOK /\ Generation(s)
  BY DEF GenerationInv
<1>1. CASE \/ StartBypass \/ StopBypass \/ StartAcknowledged \/ Joined \/ StopReturns
           \/ StopTimeout \/ OtherClient
  <2>1. Kept(s)
    BY <1>1
    DEF Kept, StartBypass, StopBypass, StartAcknowledged, Joined, StopReturns, StopTimeout,
        OtherClient, threadVars, directionVars, generationVars
  <2> QED BY <1>t, <2>1, KeptKeeps
<1>2. CASE StopCall
  <2>1. Kept(s)
    BY <1>t, <1>2 DEF Kept, StopCall, directionVars, generationVars, DuplexTypeOK
  <2> QED BY <1>t, <2>1, KeptKeeps
<1>3. CASE StartRefused
  <2>1. Kept(s)
    BY <1>t, <1>3 DEF Kept, StartRefused, directionVars, generationVars, DuplexTypeOK
  <2> QED BY <1>t, <2>1, KeptKeeps
<1>4. ASSUME NEW r \in Runtimes, NEW ds \in SUBSET Directions, Start(r, ds) PROVE Generation(s)'
  <2>1. CASE s # r
    <3>1. Kept(s)
      BY <1>t, <1>4, <2>1 DEF Kept, Start, directionVars, generationVars, DuplexTypeOK
    <3> QED BY <1>t, <3>1, KeptKeeps
  <2>2. CASE s = r
    <3>1. \A d \in Directions : loop[s][d] = "off"
      BY <1>t, <1>4, <2>2 DEF Generation, TasksAreIn, Start
    <3>2. at'[s] = "launching" /\ launched'[s] = ds /\ loop' = loop
      BY <1>t, <1>4, <2>2 DEF Start, directionVars, DuplexTypeOK
    <3> QED BY <3>1, <3>2 DEF Generation, TasksAreIn
  <2> QED BY <2>1, <2>2
<1> QED BY <1>1, <1>2, <1>3, <1>4 DEF Outer, HandleReturns

\* A thread that moves on outside of a generation runs no direction.
LEMMA QuietGeneration ==
  ASSUME NEW r \in Runtimes, DuplexTypeOK, Generation(r),
         at[r] # "unborn", at'[r] \notin {"unborn", "running"},
         at[r] = "running" => GenerationOver(r),
         launched' = launched, loop' = loop
  PROVE  Generation(r)'
  BY DEF Generation, TasksAreIn, GenerationOver

\* A step of a thread outside of its directions keeps what is known of its generation.
LEMMA ThreadGeneration ==
  ASSUME NEW r \in Runtimes, DuplexTypeOK, Generation(r), ThreadStep(r) \/ SidecarCrash(r)
  PROVE  Generation(r)'
<1>1. CASE \/ LaunchFails(r) \/ LaunchReady(r) \/ StopAtTop(r) \/ Prepare(r) \/ PrepareFails(r)
           \/ RegisterFails(r) \/ EndStopped(r) \/ PolicyReopen(r) \/ FaultRestart(r) \/ GiveUp(r)
           \/ RestartReady(r) \/ RestartFails(r)
  <2>1. /\ at[r] # "unborn" /\ (at[r] = "running" => GenerationOver(r))
        /\ launched' = launched /\ loop' = loop
    BY <1>1
    DEF LaunchFails, LaunchReady, StopAtTop, Prepare, PrepareFails, RegisterFails, EndStopped,
        PolicyReopen, FaultRestart, GiveUp, RestartReady, RestartFails, End, GenerationOver,
        OpensReturned, directionVars
  <2>2. at'[r] \notin {"unborn", "running"}
    BY <1>1
    DEF LaunchFails, LaunchReady, StopAtTop, Prepare, PrepareFails, RegisterFails, EndStopped,
        PolicyReopen, FaultRestart, GiveUp, RestartReady, RestartFails, End, DuplexTypeOK
  <2> QED BY <2>1, <2>2, QuietGeneration
<1>2. CASE Prepared(r)
  <2>1. /\ at'[r] = "running" /\ launched'[r] = launched[r] /\ launched[r] \subseteq Directions
        /\ first'[r] = "none" /\ genStop'[r] \in BOOLEAN /\ ~genStop'[r]
        /\ \A d \in Directions : loop'[r][d] \in {"running", "off"}
    BY <1>2 DEF Prepared, DuplexTypeOK
  <2> QED BY <2>1 DEF Generation, TasksAreIn, EndsHaveReasons, FirstHasReason, StopSeen
<1>3. CASE StopFirst(r)
  <2>1. /\ at[r] = "running" /\ at' = at /\ launched' = launched /\ stop' = stop /\ stop[r]
        /\ loop' = loop /\ exit' = exit /\ trouble' = trouble
        /\ first'[r] = StopSeen /\ genStop'[r]
    BY <1>3 DEF StopFirst, threadVars, directionVars, DuplexTypeOK
  <2> QED BY <2>1 DEF Generation, TasksAreIn, EndsHaveReasons, FirstHasReason, StopSeen
<1>4. CASE SidecarCrash(r)
  BY <1>4, KeptKeeps DEF SidecarCrash, Kept, directionVars, generationVars
<1> QED BY <1>1, <1>2, <1>3, <1>4 DEF ThreadStep

\* A direction that begins to close has been told to, or its policy asks for it.
LEMMA ClosingGeneration ==
  ASSUME NEW r \in Runtimes, NEW d \in launched[r], DuplexTypeOK, Generation(r),
         loop[r][d] = "running",
         at' = at, launched' = launched, stop' = stop, first' = first, genStop' = genStop,
         trouble' = trouble,
         loop' = [loop EXCEPT ![r][d] = "closing"],
         NEW how \in {"Stopped", "RestartRequired", "ModeChanged"},
         exit' = [exit EXCEPT ![r][d] = how],
         how = "Stopped" => stop[r], how = "RestartRequired" => genStop[r]
  PROVE  Generation(r)'
<1>1. at[r] = "running"
  BY DEF Generation, TasksAreIn
<1>2. /\ d \in Directions
      /\ loop'[r][d] = "closing" /\ exit'[r][d] = how
      /\ \A p \in Directions \ {d} : loop'[r][p] = loop[r][p] /\ exit'[r][p] = exit[r][p]
      /\ launched[r] \subseteq Directions
  BY DEF DuplexTypeOK
<1>3. TasksAreIn(r)'
  BY <1>1 DEF TasksAreIn
<1>4. EndsHaveReasons(r)'
  BY <1>1, <1>2 DEF Generation, EndsHaveReasons
<1>5. FirstHasReason(r)'
  BY <1>1, <1>2 DEF Generation, FirstHasReason, StopSeen
<1> QED BY <1>3, <1>4, <1>5 DEF Generation

\* A direction that returns does so for the reason it has; the first to return was not
\* told to by a peer.
LEMMA ReturnsGeneration ==
  ASSUME NEW r \in Runtimes, NEW d \in launched[r], DuplexTypeOK, Generation(r),
         NEW how, Returns(r, d, how), loop[r][d] \in {"running", "closing"},
         how \in {"Stopped", "RestartRequired", "ModeChanged", "Error"},
         trouble[r] => trouble'[r],
         how = "Stopped" => stop[r],
         how = "RestartRequired" => genStop[r] \/ trouble'[r],
         how = "Error" => trouble'[r]
  PROVE  Generation(r)'
<1>1. at[r] = "running"
  BY DEF Generation, TasksAreIn
<1>2. /\ d \in Directions /\ launched[r] \subseteq Directions
      /\ at' = at /\ launched' = launched /\ stop' = stop
  BY DEF DuplexTypeOK, Returns, threadVars
<1>3. /\ loop'[r][d] = "exited" /\ exit'[r][d] = how
      /\ \A p \in Directions \ {d} : loop'[r][p] = loop[r][p] /\ exit'[r][p] = exit[r][p]
  BY <1>2 DEF DuplexTypeOK, Returns
<1>4. /\ first[r] = "none" => first'[r] = d
      /\ first[r] # "none" => first'[r] = first[r]
  BY DEF DuplexTypeOK, Returns
<1>5. genStop[r] => genStop'[r]
  BY Zenon DEF DuplexTypeOK, Returns
<1>6. d # "none" /\ d # StopSeen /\ first'[r] # "none"
  BY <1>2, <1>4, DuplexAssumption DEF DuplexAssumption, StopSeen
<1>7. TasksAreIn(r)'
  BY <1>1, <1>2 DEF TasksAreIn
<1>8. EndsHaveReasons(r)'
  BY <1>1, <1>2, <1>3, <1>5 DEF Generation, EndsHaveReasons
<1>9. FirstHasReason(r)'
  <2>1. CASE first[r] = "none"
    BY <1>1, <1>2, <1>3, <1>4, <1>6, <2>1 DEF Generation, FirstHasReason
  <2>2. CASE first[r] # "none"
    BY <1>1, <1>2, <1>3, <1>4, <1>6, <2>2 DEF Generation, FirstHasReason
  <2> QED BY <2>1, <2>2
<1> QED BY <1>7, <1>8, <1>9 DEF Generation

\* A step of a direction keeps what is known of its generation.
LEMMA DirectionGeneration ==
  ASSUME NEW r \in Runtimes, NEW d \in launched[r], DuplexTypeOK, Generation(r),
         \/ ChangeMode(r, d) \/ SpeechStarted(r, d) \/ UtteranceTerminal(r, d)
         \/ DirectionStep(r, d) \/ Fails(r, d) \/ WatchdogRestart(r, d)
         \/ Hang(r, d) \/ HungCallBreaks(r, d)
  PROVE  Generation(r)'
<1>d. d \in Directions
  BY DEF DuplexTypeOK
<1>1. CASE ChangeMode(r, d) \/ SpeechStarted(r, d) \/ Hang(r, d) \/ HungCallBreaks(r, d)
  <2>1. Kept(r)
    BY <1>1 DEF ChangeMode, SpeechStarted, Hang, HungCallBreaks, Kept, threadVars, directionVars, generationVars
  <2> QED BY <2>1, KeptKeeps
<1>2. CASE UtteranceTerminal(r, d)
  <2>1. /\ at' = at /\ launched' = launched /\ stop' = stop /\ first' = first
        /\ genStop' = genStop /\ trouble' = trouble /\ loop[r][d] = "running"
    BY <1>2 DEF UtteranceTerminal, Listens, Runs, threadVars
  <2>2. CASE ClosesForPolicy(r, d)
    <3>1. /\ loop' = [loop EXCEPT ![r][d] = "closing"]
          /\ exit' = [exit EXCEPT ![r][d] = "ModeChanged"]
      BY <1>2, <2>2 DEF UtteranceTerminal
    <3> QED BY <2>1, <3>1, ClosingGeneration
  <2>3. CASE ~ClosesForPolicy(r, d)
    <3>1. loop' = loop /\ exit' = exit
      BY <1>2, <1>d, <2>3 DEF UtteranceTerminal, DuplexTypeOK
    <3> QED BY <2>1, <3>1, KeptKeeps DEF Kept
  <2> QED BY <2>2, <2>3
<1>3. CASE StopNoticed(r, d)
  <2>1. Closes(r, d, "Stopped") /\ stop[r] /\ loop[r][d] = "running"
    BY <1>3 DEF StopNoticed, Runs
  <2>2. /\ at' = at /\ launched' = launched /\ stop' = stop /\ first' = first
        /\ genStop' = genStop /\ trouble' = trouble
        /\ loop' = [loop EXCEPT ![r][d] = "closing"]
        /\ exit' = [exit EXCEPT ![r][d] = "Stopped"]
    BY <2>1 DEF Closes, threadVars, generationVars
  <2> QED BY <2>1, <2>2, ClosingGeneration
<1>4. CASE GenerationStopNoticed(r, d)
  <2>1. Closes(r, d, "RestartRequired") /\ genStop[r] /\ loop[r][d] = "running"
    BY <1>4 DEF GenerationStopNoticed, Runs
  <2>2. /\ at' = at /\ launched' = launched /\ stop' = stop /\ first' = first
        /\ genStop' = genStop /\ trouble' = trouble
        /\ loop' = [loop EXCEPT ![r][d] = "closing"]
        /\ exit' = [exit EXCEPT ![r][d] = "RestartRequired"]
    BY <2>1 DEF Closes, threadVars, generationVars
  <2> QED BY <2>1, <2>2, ClosingGeneration
<1>5. CASE Closed(r, d)
  <2>1. /\ loop[r][d] = "closing" /\ Returns(r, d, exit[r][d]) /\ trouble' = trouble
    BY <1>5 DEF Closed
  <2>2. at[r] = "running"
    BY <2>1 DEF Generation, TasksAreIn
  <2>3. /\ exit[r][d] \in {"Stopped", "RestartRequired", "ModeChanged"}
        /\ exit[r][d] = "Stopped" => stop[r]
        /\ exit[r][d] = "RestartRequired" => genStop[r] \/ trouble[r]
    BY <2>1, <2>2 DEF Generation, EndsHaveReasons
  <2> QED BY <2>1, <2>3, ReturnsGeneration
<1>6. CASE CloseFails(r, d) \/ Fails(r, d)
  <2>1. Returns(r, d, "Error") /\ trouble'[r] /\ loop[r][d] \in {"running", "closing"}
    BY <1>6 DEF CloseFails, Fails, DuplexTypeOK
  <2> QED BY <2>1, ReturnsGeneration
<1>7. CASE WatchdogRestart(r, d)
  <2>1. Returns(r, d, "RestartRequired") /\ trouble'[r] /\ loop[r][d] = "running"
    BY <1>7 DEF WatchdogRestart, Listens, Runs, DuplexTypeOK
  <2> QED BY <2>1, ReturnsGeneration
<1> QED BY <1>1, <1>2, <1>3, <1>4, <1>5, <1>6, <1>7 DEF DirectionStep

\* A step of a thread or of its directions leaves the other threads alone.
LEMMA InnerKeepsOthers ==
  ASSUME DuplexTypeOK, NEW r \in Runtimes, NEW s \in Runtimes \ {r}, Inner(r) PROVE Kept(s)
<1> USE DEF DuplexTypeOK, Kept, handleVars, threadVars, directionVars, generationVars
<1>1. CASE \/ LaunchFails(r) \/ LaunchReady(r) \/ StopAtTop(r) \/ Prepare(r) \/ PrepareFails(r)
           \/ RegisterFails(r) \/ EndStopped(r) \/ PolicyReopen(r) \/ FaultRestart(r) \/ GiveUp(r)
           \/ RestartReady(r) \/ RestartFails(r) \/ SidecarCrash(r)
  BY <1>1
  DEF LaunchFails, LaunchReady, StopAtTop, Prepare, PrepareFails, RegisterFails, EndStopped,
      PolicyReopen, FaultRestart, GiveUp, RestartReady, RestartFails, End, SidecarCrash
<1>2. CASE Prepared(r)
  BY <1>2 DEF Prepared
<1>3. CASE StopFirst(r)
  BY <1>3 DEF StopFirst
<1>4. ASSUME NEW d \in launched[r],
             ChangeMode(r, d) \/ SpeechStarted(r, d) \/ Hang(r, d) \/ HungCallBreaks(r, d)
      PROVE  Kept(s)
  BY <1>4 DEF ChangeMode, SpeechStarted, Hang, HungCallBreaks
<1>5. ASSUME NEW d \in launched[r], UtteranceTerminal(r, d) PROVE Kept(s)
  BY <1>5 DEF UtteranceTerminal
<1>6. ASSUME NEW d \in launched[r], StopNoticed(r, d) \/ GenerationStopNoticed(r, d) PROVE Kept(s)
  BY <1>6 DEF StopNoticed, GenerationStopNoticed, Closes
<1>7. ASSUME NEW d \in launched[r],
             Closed(r, d) \/ CloseFails(r, d) \/ Fails(r, d) \/ WatchdogRestart(r, d)
      PROVE  Kept(s)
  BY <1>7 DEF Closed, CloseFails, Fails, WatchdogRestart, Returns
<1> QED BY <1>1, <1>2, <1>3, <1>4, <1>5, <1>6, <1>7 DEF Inner, ThreadStep, DirectionStep

\* GenerationInv is an inductive invariant of the runtime.
LEMMA GenerationInvariance == Spec => []GenerationInv
<1>1. Init => GenerationInv
  BY InitTypeOK, InitGeneration DEF GenerationInv
<1>2. GenerationInv /\ [Next]_vars => (\A r \in Runtimes : Generation(r))'
  <2> SUFFICES ASSUME GenerationInv, [Next]_vars, NEW s \in Runtimes PROVE Generation(s)'
    OBVIOUS
  <2>1. CASE Outer
    BY <2>1, OuterGeneration
  <2>2. ASSUME NEW r \in Runtimes, Inner(r) PROVE Generation(s)'
    <3>1. CASE s = r
      BY <2>2, <3>1, ThreadGeneration, DirectionGeneration DEF Inner, GenerationInv
    <3>2. CASE s # r
      BY <2>2, <3>2, InnerKeepsOthers, KeptKeeps DEF GenerationInv
    <3> QED BY <3>1, <3>2
  <2>3. CASE UNCHANGED vars
    BY <2>3, KeptKeeps
    DEF GenerationInv, Kept, vars, threadVars, directionVars, generationVars
  <2> QED BY <2>1, <2>2, <2>3, NextSplits
<1> QED BY <1>1, <1>2, DuplexTypeCorrect, PTL DEF Spec, GenerationInv

\* A generation that ends without trouble and without a stop is a policy reopen.
LEMMA CalmEndIsReopen ==
  ASSUME GenerationInv, NEW r \in Runtimes, GenerationOver(r), ~stop[r], ~trouble[r]
  PROVE  classify_generation_restart(r)
<1>1. EndsHaveReasons(r) /\ FirstHasReason(r)
  BY DEF GenerationInv, Generation, GenerationOver
<1>2. /\ first[r] \in launched[r] /\ exit[r][first[r]] # "RestartRequired"
  BY <1>1 DEF FirstHasReason, GenerationOver
<1>3. \A d \in launched[r] : exit[r][d] \in {"RestartRequired", "ModeChanged"}
  BY <1>1 DEF EndsHaveReasons, GenerationOver
<1> QED BY <1>2, <1>3 DEF classify_generation_restart, Peers

\* A policy reopen never uses up the budget of fault restarts: a restart is counted only
\* if a direction of the generation failed (classify_generation_restart).
THEOREM DuplexReopenIsFree == Spec => PolicyReopenIsFree
<1>1. GenerationInv /\ [Next]_vars
        => [\A r \in Runtimes : restarts'[r] > restarts[r] => trouble[r]]_vars
  <2> SUFFICES ASSUME GenerationInv, [Next]_vars, NEW r \in Runtimes, restarts'[r] > restarts[r]
               PROVE  trouble[r]
    OBVIOUS
  <2>t. DuplexTypeOK
    BY DEF GenerationInv
  <2>n. restarts[r] \in Nat
    BY <2>t, DuplexAssumption DEF DuplexTypeOK, DuplexAssumption
  <2>1. restarts' # restarts
    BY <2>n
  <2>2. PICK s \in Runtimes : FaultRestart(s)
    <3>1. ~UNCHANGED vars
      BY <2>1 DEF vars, threadVars
    <3>2. ~Outer
      BY <2>1
      DEF Outer, StartBypass, StopBypass, StopCall, HandleReturns, StartAcknowledged, StartRefused,
          Joined, StopReturns, StopTimeout, OtherClient, Start, threadVars
    <3>3. PICK s \in Runtimes : Inner(s)
      BY <3>1, <3>2, NextSplits
    <3>4. ASSUME NEW d \in launched[s],
                 \/ ChangeMode(s, d) \/ SpeechStarted(s, d) \/ UtteranceTerminal(s, d)
                 \/ DirectionStep(s, d) \/ Fails(s, d) \/ WatchdogRestart(s, d)
                 \/ Hang(s, d) \/ HungCallBreaks(s, d)
          PROVE  FALSE
      BY <2>1, <3>4
      DEF ChangeMode, SpeechStarted, UtteranceTerminal, DirectionStep, StopNoticed,
          GenerationStopNoticed, Closes, Closed, CloseFails, Fails, WatchdogRestart, Returns,
          Hang, HungCallBreaks, threadVars
    <3>5. FaultRestart(s)
      BY <2>1, <3>3, <3>4
      DEF Inner, ThreadStep, SidecarCrash, LaunchFails, LaunchReady, StopAtTop, Prepare,
          PrepareFails, RegisterFails, Prepared, StopFirst, EndStopped, PolicyReopen, GiveUp,
          RestartReady, RestartFails, End, threadVars
    <3> QED BY <3>5
  <2>3. restarts' = [restarts EXCEPT ![s] = @ + 1]
    BY <2>2 DEF FaultRestart
  <2>4. r = s
    BY <2>n, <2>t, <2>3 DEF DuplexTypeOK
  <2> QED BY <2>2, <2>4, CalmEndIsReopen DEF FaultRestart
<1> QED BY <1>1, GenerationInvariance, PTL DEF Spec, PolicyReopenIsFree
=============================================================================
