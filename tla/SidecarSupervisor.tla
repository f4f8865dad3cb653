------------------------- MODULE SidecarSupervisor -------------------------
(***************************************************************************)
(* The supervisor of the provider sidecar (sidecar_supervisor.rs) over the *)
(* process runtime it uses in production (process_sidecar.rs): start with  *)
(* its probe and its retries, the sessions of a generation, a close that   *)
(* is not acknowledged and restarts the generation, shutdown, and the Drop *)
(* of the runtime that ends a supervisor whose owner gave up.  Calls hold  *)
(* &mut self, so one is in progress at a time; between two of its awaits   *)
(* the processes do what they like: leaders exit, descendants outlive      *)
(* them, sockets are bound and left behind.                                *)
(*                                                                         *)
(* Errors of waitpid and kill other than ESRCH are left out: the processes *)
(* are the daemon's own children.                                          *)
(***************************************************************************)
EXTENDS Naturals, FiniteSets

CONSTANTS Sessions,      \* session ids
          MaxAttempts,   \* MAX_START_ATTEMPTS
          MaxSpawns,     \* bound: processes spawned in a behaviour
          MaxLaunches    \* bound: generations made in a behaviour

ASSUME SupervisorAssumption == MaxAttempts \in Nat \ {0} /\ MaxSpawns \in Nat /\ MaxLaunches \in Nat

VARIABLES op,         \* the call in progress: none, start, close, shutdown
          pc,         \* the await it is at
          attempt,    \* the attempt of start
          launch,     \* generation of SidecarSupervisor.launch, 0 for none
          launches,   \* generations made so far: new_launch never repeats one
          ready,      \* status.ready
          sessions,   \* active_sessions
          closing,    \* the session of close_session
          result,     \* how the last call ended
          child,      \* the Child handle: the process it is of, 0 for none
          pgid,       \* process_group_id
          leader,     \* each process spawned: unborn, alive, zombie, gone
          kin,        \* it has descendants alive in its group
          killed,     \* its group was sent SIGKILL
          gen,        \* the generation it was launched with
          socket,     \* the process that bound the socket path, 0: no such file
          reg,        \* history: the generation a session was registered in
          served      \* history: the process that answered the last good probe

callVars == <<op, pc, attempt, closing, result>>
supervisorVars == <<launch, launches, ready, sessions, reg, served>>
handles == <<child, pgid>>
processVars == <<leader, kin, killed, gen, socket>>
vars == <<callVars, supervisorVars, handles, processVars>>

Procs == 1..MaxSpawns
Spawned == Cardinality({p \in Procs : leader[p] # "unborn"})

\* Somebody of the group can still hold the socket; kill(2) finds the group.
Runs(p) == leader[p] = "alive" \/ kin[p]
Listening == socket # 0 /\ Runs(socket)
GroupExists(p) == leader[p] \in {"alive", "zombie"} \/ kin[p]

Init ==
  /\ op = "none" /\ pc = "idle" /\ attempt = 0 /\ closing = {} /\ result = "none"
  /\ launch = 0 /\ launches = 0 /\ ready = FALSE /\ sessions = {}
  /\ reg = [s \in Sessions |-> 0] /\ served = 0
  /\ child = 0 /\ pgid = 0
  /\ leader = [p \in Procs |-> "unborn"]
  /\ kin = [p \in Procs |-> FALSE]
  /\ killed = [p \in Procs |-> FALSE]
  /\ gen = [p \in Procs |-> 0]
  /\ socket = 0

-----------------------------------------------------------------------------
(* The processes.                                                          *)

EnvUnchanged == UNCHANGED <<callVars, supervisorVars, handles>>

\* A leader exits or crashes; a clean exit takes its socket away.
LeaderExits(p) ==
  /\ leader[p] = "alive"
  /\ leader' = [leader EXCEPT ![p] = "zombie"]
  /\ socket' \in (IF socket = p THEN {0, p} ELSE {socket})
  /\ UNCHANGED <<kin, killed, gen>> /\ EnvUnchanged

Forks(p) ==
  /\ leader[p] = "alive" /\ ~kin[p]
  /\ kin' = [kin EXCEPT ![p] = TRUE]
  /\ UNCHANGED <<leader, killed, gen, socket>> /\ EnvUnchanged

DescendantsExit(p) ==
  /\ kin[p]
  /\ kin' = [kin EXCEPT ![p] = FALSE]
  /\ UNCHANGED <<leader, killed, gen, socket>> /\ EnvUnchanged

\* The sidecar binds its socket; it refuses a path that exists.
Binds(p) ==
  /\ Runs(p) /\ ~killed[p] /\ socket = 0
  /\ socket' = p
  /\ UNCHANGED <<leader, kin, killed, gen>> /\ EnvUnchanged

-----------------------------------------------------------------------------
(* The handles of ProcessSidecarRuntime.                                   *)

\* Mutant: the group is forgotten with its leader.
ForgetGroup(p) == 0

\* clear_absent_process_group, once the leader is reaped.
GroupAfterLeader(p) == IF p # 0 /\ kin[p] THEN p ELSE 0

\* running_child finds the leader alive, or reaps it and drops the handle.
ChildRuns == child # 0 /\ leader[child] = "alive"

ReapChild ==
  /\ ~ChildRuns
  /\ leader' = [p \in Procs |-> IF p = child THEN "gone" ELSE leader[p]]
  /\ child' = 0
  /\ pgid' = GroupAfterLeader(pgid)

PollUnchanged == UNCHANGED <<leader, handles>>

-----------------------------------------------------------------------------
(* Helpers of the supervisor.                                              *)

\* Mutant: the sessions of the old generation stay registered.
KeepSessions == sessions

SessionsAfterUnready == {}

set_unready == ready' = FALSE /\ sessions' = SessionsAfterUnready

new_launch == launch' = launches + 1 /\ launches' = launches + 1

Returns(r) == op' = "none" /\ pc' = "idle" /\ result' = r /\ closing' = {}

LastAttempt == attempt + 1 = MaxAttempts

\* The next attempt of start, with a launch of its own, or the end of start.
NextAttempt ==
  \/ /\ ~LastAttempt
     /\ attempt' = attempt + 1 /\ pc' = "spawn"
     /\ new_launch
     /\ UNCHANGED <<op, result, closing>>
  \/ /\ LastAttempt
     /\ Returns("err")
     /\ UNCHANGED <<attempt, launch, launches>>

\* Bound: a start has processes and generations left for all its attempts.
CanSpawn == Spawned + MaxAttempts <= MaxSpawns /\ launches + MaxAttempts <= MaxLaunches

-----------------------------------------------------------------------------
(* start                                                                   *)

StartCall ==
  /\ op = "none" /\ CanSpawn
  /\ op' = "start" /\ pc' = "spawn" /\ attempt' = 0
  /\ set_unready
  /\ IF launch = 0 THEN new_launch ELSE UNCHANGED <<launch, launches>>
  /\ UNCHANGED <<closing, result, reg, served, handles, processVars>>

\* runtime.start refuses while the last child, or its group, is there.
StartRefused ==
  /\ pc = "spawn"
  /\ \/ ChildRuns /\ PollUnchanged
     \/ ReapChild /\ pgid' # 0
  /\ NextAttempt
  /\ UNCHANGED <<ready, sessions, reg, served, kin, killed, gen, socket>>

SpawnFails ==
  /\ pc = "spawn" /\ ReapChild /\ pgid' = 0
  /\ NextAttempt
  /\ UNCHANGED <<ready, sessions, reg, served, kin, killed, gen, socket>>

Spawn ==
  /\ pc = "spawn" /\ ~ChildRuns /\ GroupAfterLeader(pgid) = 0
  /\ LET n == Spawned + 1
     IN /\ leader' = [p \in Procs |-> IF p = n THEN "alive"
                                      ELSE IF p = child THEN "gone" ELSE leader[p]]
        /\ child' = n /\ pgid' = n
        /\ gen' = [gen EXCEPT ![n] = launch]
  /\ pc' = "probe"
  /\ UNCHANGED <<op, attempt, closing, result, supervisorVars, kin, killed, socket>>

ProbeAlive ==
  /\ pc = "probe" /\ ChildRuns
  /\ pc' = "connect"
  /\ UNCHANGED <<op, attempt, closing, result, supervisorVars, handles, processVars>>

ProbeChildGone ==
  /\ pc = "probe" /\ ReapChild
  /\ pc' = "reap"
  /\ UNCHANGED <<op, attempt, closing, result, supervisorVars, kin, killed, gen, socket>>

\* Nobody listens: the probe sleeps and looks at the child again.
ConnectFails ==
  /\ pc = "connect" /\ ~Listening
  /\ pc' = "probe"
  /\ UNCHANGED <<op, attempt, closing, result, supervisorVars, handles, processVars>>

SameGeneration(p) == gen[p] = launch

\* The process that listens answers; it accepts the token of its own launch only.
ProbeAnswers ==
  /\ pc = "connect" /\ Listening
  /\ IF SameGeneration(socket)
       THEN ready' = TRUE /\ served' = socket /\ Returns("ok")
       ELSE pc' = "reap" /\ UNCHANGED <<ready, served, op, result, closing>>
  /\ UNCHANGED <<attempt, launch, launches, sessions, reg, handles, processVars>>

\* Mutant: a probe is not limited in time.
NoProbeTimeout == FALSE

ProbeMayTimeOut == pc \in {"probe", "connect"}

\* The probe times out, or its answer cannot be used.
ProbeFails ==
  /\ ProbeMayTimeOut
  /\ pc' = "reap"
  /\ UNCHANGED <<op, attempt, closing, result, supervisorVars, handles, processVars>>

-----------------------------------------------------------------------------
(* Ending a process group.                                                 *)

\* Nothing to kill: the handle is dropped.
NothingToKill ==
  /\ pc \in {"reap", "term"} /\ pgid = 0
  /\ child' = 0 /\ pc' = "cleanup"
  /\ UNCHANGED <<op, attempt, closing, result, supervisorVars, pgid, processVars>>

\* SIGKILL to the group, and wait for the leader; shutdown comes here when SIGTERM
\* did not end the group in time.
KillGroup ==
  /\ pc \in {"reap", "term"} /\ pgid # 0
  /\ killed' = [killed EXCEPT ![pgid] = TRUE]
  /\ leader' = [leader EXCEPT ![pgid] = "gone"]
  /\ child' = 0 /\ pc' = "vanish"
  /\ UNCHANGED <<op, attempt, closing, result, supervisorVars, pgid, kin, gen, socket>>

\* Mutant: the exit of the leader is taken for the exit of the group.
LeaderOnly(p) == leader[p] # "alive"

\* wait_for_group_exit: a leader that exited is reaped on the way.
GroupGone(p) == leader[p] # "alive" /\ ~kin[p]

\* SIGTERM was enough.
TermEnds ==
  /\ pc = "term" /\ pgid # 0 /\ GroupGone(pgid)
  /\ leader' = [leader EXCEPT ![pgid] = "gone"]
  /\ child' = 0 /\ pgid' = 0 /\ pc' = "cleanup"
  /\ UNCHANGED <<op, attempt, closing, result, supervisorVars, kin, killed, gen, socket>>

Vanished ==
  /\ pc = "vanish" /\ ~GroupExists(pgid)
  /\ pgid' = 0 /\ pc' = "cleanup"
  /\ UNCHANGED <<op, attempt, closing, result, supervisorVars, child, processVars>>

\* The group is still there after the timeout: the call fails and keeps the group.
KillFails ==
  /\ pc = "vanish" /\ GroupExists(pgid)
  /\ Returns("err")
  /\ UNCHANGED <<attempt, supervisorVars, handles, processVars>>

\* remove_stale_sidecar_socket succeeds unless somebody listens, and the call goes on.
Cleanup ==
  /\ pc = "cleanup" /\ ~Listening
  /\ socket' = 0
  /\ \/ op = "start" /\ NextAttempt /\ UNCHANGED <<ready, sessions>>
     \/ /\ op = "close"
        /\ op' = "start" /\ pc' = "spawn" /\ attempt' = 0
        /\ new_launch /\ set_unready
        /\ closing' = {} /\ UNCHANGED result
     \/ /\ op = "shutdown" /\ Returns("ok")
        /\ UNCHANGED <<attempt, launch, launches, ready, sessions>>
  /\ UNCHANGED <<reg, served, handles, leader, kin, killed, gen>>

\* The socket is live, foreign or unsafe.
CleanupFails ==
  /\ pc = "cleanup" /\ socket # 0
  /\ Returns("err")
  /\ UNCHANGED <<attempt, supervisorVars, handles, processVars>>

-----------------------------------------------------------------------------
(* Sessions                                                                *)

\* refresh_liveness: a ready supervisor whose child is gone loses its readiness.
Refresh ==
  \/ ready /\ ChildRuns /\ UNCHANGED <<ready, sessions>> /\ PollUnchanged
  \/ ready /\ ReapChild /\ set_unready
  \/ ~ready /\ UNCHANGED <<ready, sessions>> /\ PollUnchanged

\* is_ready by itself, or a register or close that is refused.
IsReady ==
  /\ op = "none" /\ Refresh
  /\ UNCHANGED <<callVars, launch, launches, reg, served, kin, killed, gen, socket>>

RegisterSession(s) ==
  /\ op = "none" /\ ready /\ ChildRuns
  /\ sessions' = sessions \cup {s}
  /\ reg' = [reg EXCEPT ![s] = IF s \in sessions THEN @ ELSE launch]
  /\ UNCHANGED <<callVars, launch, launches, ready, served, handles, processVars>>

CloseCall(s) ==
  /\ op = "none" /\ ready /\ ChildRuns /\ s \in sessions /\ CanSpawn
  /\ op' = "close" /\ pc' = "ack" /\ closing' = {s}
  /\ UNCHANGED <<attempt, result, supervisorVars, handles, processVars>>

CloseAcknowledged ==
  /\ pc = "ack"
  /\ sessions' = sessions \ closing
  /\ Returns("ok")
  /\ UNCHANGED <<attempt, launch, launches, ready, reg, served, handles, processVars>>

\* The future of close_session is dropped while it waits.
CloseCancelled ==
  /\ pc = "ack"
  /\ Returns("none")
  /\ UNCHANGED <<attempt, supervisorVars, handles, processVars>>

CloseTimeout ==
  /\ pc = "ack"
  /\ pc' = "reap" /\ set_unready
  /\ UNCHANGED <<op, attempt, closing, result, launch, launches, reg, served, handles, processVars>>

-----------------------------------------------------------------------------
ShutdownCall ==
  /\ op = "none"
  /\ op' = "shutdown" /\ pc' = "term" /\ set_unready
  /\ UNCHANGED <<attempt, closing, result, launch, launches, reg, served, handles, processVars>>

DropKills(p) == killed[p] \/ p = pgid

\* The owner drops the supervisor without a shutdown, as run_process_duplex does on
\* most errors, and the next start of the runtime makes a new one.
Replace ==
  /\ op = "none"
  /\ killed' = [p \in Procs |-> DropKills(p)]
  /\ leader' = [p \in Procs |-> IF p = child THEN "gone" ELSE leader[p]]
  /\ child' = 0 /\ pgid' = 0
  /\ launch' = 0 /\ ready' = FALSE /\ sessions' = {} /\ result' = "none"
  /\ UNCHANGED <<op, pc, attempt, closing, launches, reg, served, kin, gen, socket>>

StartStep ==
  \/ StartRefused \/ SpawnFails \/ Spawn \/ ProbeAlive \/ ProbeChildGone \/ ConnectFails
  \/ ProbeAnswers \/ ProbeFails

EndStep ==
  \/ NothingToKill \/ KillGroup \/ TermEnds \/ Vanished \/ KillFails \/ Cleanup \/ CleanupFails
  \/ CloseAcknowledged \/ CloseTimeout

Next ==
  \/ StartCall \/ StartStep \/ EndStep \/ CloseCancelled \/ IsReady \/ ShutdownCall \/ Replace
  \/ \E s \in Sessions : RegisterSession(s) \/ CloseCall(s)
  \/ \E p \in Procs : LeaderExits(p) \/ Forks(p) \/ DescendantsExit(p) \/ Binds(p)

Spec == Init /\ [][Next]_vars

\* A call that is awaited is polled, and its timeouts fire.
FairSpec == Spec /\ WF_vars(StartStep \/ EndStep) /\ WF_vars(ProbeFails)

-----------------------------------------------------------------------------
(* Properties.                                                             *)

\* Type invariant; a start makes no more attempts than MAX_START_ATTEMPTS.
SupervisorTypeOK ==
  /\ op \in {"none", "start", "close", "shutdown"}
  /\ pc \in {"idle", "spawn", "probe", "connect", "reap", "term", "vanish", "cleanup", "ack"}
  /\ attempt \in 0..(MaxAttempts - 1)
  /\ launch \in Nat /\ launches \in Nat
  /\ ready \in BOOLEAN /\ sessions \subseteq Sessions /\ closing \subseteq Sessions
  /\ result \in {"none", "ok", "err"}
  /\ child \in {0} \cup Procs /\ pgid \in {0} \cup Procs
  /\ leader \in [Procs -> {"unborn", "alive", "zombie", "gone"}]
  /\ kin \in [Procs -> BOOLEAN] /\ killed \in [Procs -> BOOLEAN]
  /\ gen \in [Procs -> Nat] /\ socket \in {0} \cup Procs
  /\ reg \in [Sessions -> Nat] /\ served \in {0} \cup Procs

\* Every process group that exists is the one the runtime would kill, or has been
\* killed already: a leader that exits before its descendants, a kill that fails and
\* a dropped supervisor lose nothing, and no second sidecar runs beside the first
\* (process_group_id, ProcessSidecarRuntime::start and Drop).  And a supervisor that is
\* ready was answered by the process it holds the handle of, not by one left over from
\* another supervisor or attempt that still listens on the same path (GenerationMismatch).
GroupIsOwned ==
  /\ SupervisorTypeOK
  /\ \A p \in Procs : GroupExists(p) /\ ~killed[p] => p = pgid
  /\ ready => served = child /\ gen[child] = launch

\* Registered sessions belong to the generation that is ready: none survives a crash
\* that was noticed, a restart or a shutdown (set_unready, register_session).
SessionsAreCurrent == \A s \in sessions : ready /\ reg[s] = launch

\* When shutdown returns Ok no process of any generation is left, unless it was killed
\* by an earlier supervisor and is dying, and the path is free for the next sidecar
\* (shutdown_and_reap, cleanup_reaped).
ShutdownLeavesNothing ==
  [][(op = "shutdown" /\ op' = "none" /\ result' = "ok")
       => socket' = 0 /\ \A p \in Procs : GroupExists(p)' => killed[p]]_vars

\* Every call returns, also when the sidecar never listens and its group does not die.
CallsEnd == op # "none" ~> op = "none"
=============================================================================
