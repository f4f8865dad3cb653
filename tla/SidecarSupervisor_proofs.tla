---------------------- MODULE SidecarSupervisor_proofs ----------------------
(***************************************************************************)
(* Proofs about the sidecar supervisor, for every set of sessions and any  *)
(* number of attempts, spawns and generations: every process group is the  *)
(* one the runtime would kill or has been killed, a ready supervisor was   *)
(* answered by its own child, registered sessions belong to the ready      *)
(* generation, and a shutdown that returns Ok leaves nothing behind.       *)
(***************************************************************************)
EXTENDS SidecarSupervisor, FiniteSetTheorems, TLAPS

----------------------------------------------------------------------------
(* The inductive invariant.                                                *)

\* Which awaits each call passes through.
CallShape ==
  /\ op = "none" => pc = "idle"
  /\ op = "start" => pc \in {"spawn", "probe", "connect", "reap", "vanish", "cleanup"}
  /\ op = "close" => pc \in {"ack", "reap", "vanish", "cleanup"}
  /\ op = "shutdown" => pc \in {"term", "vanish", "cleanup"}

\* The handles: a child leads the group that is held, a group whose child was reaped has
\* no leader, and what is left of them at the awaits that rely on it.
HandleShape ==
  /\ child # 0 => child = pgid
  /\ pgid # 0 => leader[pgid] # "unborn"
  /\ pgid # 0 /\ child = 0 => leader[pgid] = "gone"
  /\ pc = "vanish" => pgid # 0 /\ child = 0
  /\ pc = "cleanup" => pgid = 0

\* Processes are numbered in the order they are spawned; an unborn one has no kin.
Born == {p \in Procs : leader[p] # "unborn"}
Numbered ==
  /\ \A p \in Procs : leader[p] # "unborn" <=> p <= Spawned
  /\ \A p \in Procs : kin[p] => leader[p] # "unborn"

\* What a call in progress may still spawn is within the bound.
Budget ==
  /\ op = "start" /\ pc = "spawn" => Spawned + MaxAttempts <= MaxSpawns + attempt
  /\ op = "start" /\ pc # "spawn" => Spawned + MaxAttempts <= MaxSpawns + attempt + 1
  /\ op = "close" => Spawned + MaxAttempts <= MaxSpawns

\* A generation is never made twice, and every process was launched with one.
Generations ==
  /\ launch <= launches
  /\ op = "start" => launch # 0
  /\ \A p \in Procs : leader[p] # "unborn" => gen[p] # 0 /\ gen[p] <= launches
  /\ pc \in {"probe", "connect"} => child # 0 /\ gen[child] = launch

\* A group that is not the one held was killed when its supervisor was dropped: it is of
\* an older generation, so it cannot answer the probe of this one.
OthersAreOld ==
  \A p \in Procs : GroupExists(p) /\ p # pgid => killed[p] /\ gen[p] # launch

\* What readiness stands for, and when it can be there.
ReadyShape ==
  ready => /\ op = "none" \/ pc = "ack"
           /\ child # 0 /\ served = child /\ gen[child] = launch

SupervisorInv ==
  /\ SupervisorTypeOK /\ CallShape /\ HandleShape /\ Numbered /\ Budget /\ Generations
  /\ OthersAreOld /\ ReadyShape /\ SessionsAreCurrent

----------------------------------------------------------------------------
(* Counting the processes.                                                 *)

\* The processes spawned so far are finitely many.
LEMMA SpawnedFacts ==
    ASSUME SupervisorTypeOK
    PROVE  Spawned \in Nat /\ Spawned = Cardinality(Born) /\ IsFiniteSet(Born)
  <1>1. IsFiniteSet(Procs)
    BY SupervisorAssumption, FS_Interval DEF Procs
  <1>2. Born \in SUBSET Procs
    BY DEF Born
  <1>3. IsFiniteSet(Born)
    BY <1>1, <1>2, FS_Subset
  <1> QED
    BY <1>3, FS_CardinalityType DEF Spawned, Born

\* A step that spawns nothing leaves their number alone.
LEMMA SameSpawned ==
    ASSUME \A p \in Procs : leader[p] # "unborn" <=> leader'[p] # "unborn"
    PROVE  Spawned' = Spawned
  <1>1. {p \in Procs : leader'[p] # "unborn"} = {p \in Procs : leader[p] # "unborn"}
    OBVIOUS
  <1> QED
    BY <1>1 DEF Spawned

----------------------------------------------------------------------------
(* The actions that spawn nothing and poll no child.                       *)

\* The probe finds the child alive.
LEMMA ProbeAliveKeeps == SupervisorInv /\ ProbeAlive => SupervisorInv'
  <1> SUFFICES ASSUME SupervisorInv, ProbeAlive PROVE SupervisorInv'
    OBVIOUS
  <1> USE SupervisorAssumption DEF SupervisorInv, ProbeAlive, callVars, supervisorVars, handles,
        processVars, EnvUnchanged, Procs, ChildRuns
  <1>1. \A p \in Procs : leader[p] # "unborn" <=> leader'[p] # "unborn"
    BY DEF SupervisorTypeOK, HandleShape
  <1>2. Spawned \in Nat /\ Spawned' = Spawned
    BY <1>1, SpawnedFacts, SameSpawned
  <1>3. SupervisorTypeOK'
    BY <1>1, <1>2 DEF SupervisorTypeOK, CallShape, HandleShape
  <1>4. CallShape' /\ HandleShape'
    BY <1>1, <1>2 DEF SupervisorTypeOK, CallShape, HandleShape, GroupExists
  <1>5. Numbered' /\ Budget'
    BY <1>1, <1>2 DEF SupervisorTypeOK, CallShape, HandleShape, Numbered, Budget
  <1>6. Generations' /\ OthersAreOld'
    BY <1>1, <1>2 DEF SupervisorTypeOK, CallShape, HandleShape, Generations, OthersAreOld,
      GroupExists
  <1>7. ReadyShape' /\ SessionsAreCurrent'
    BY <1>1, <1>2 DEF SupervisorTypeOK, CallShape, ReadyShape, SessionsAreCurrent
  <1> QED
    BY <1>3, <1>4, <1>5, <1>6, <1>7

\* Nobody listens.
LEMMA ConnectFailsKeeps == SupervisorInv /\ ConnectFails => SupervisorInv'
  <1> SUFFICES ASSUME SupervisorInv, ConnectFails PROVE SupervisorInv'
    OBVIOUS
  <1> USE SupervisorAssumption DEF SupervisorInv, ConnectFails, callVars, supervisorVars,
        handles, processVars, EnvUnchanged, Procs
  <1>1. \A p \in Procs : leader[p] # "unborn" <=> leader'[p] # "unborn"
    BY DEF SupervisorTypeOK, HandleShape
  <1>2. Spawned \in Nat /\ Spawned' = Spawned
    BY <1>1, SpawnedFacts, SameSpawned
  <1>3. SupervisorTypeOK'
    BY <1>1, <1>2 DEF SupervisorTypeOK, CallShape, HandleShape
  <1>4. CallShape' /\ HandleShape'
    BY <1>1, <1>2 DEF SupervisorTypeOK, CallShape, HandleShape, GroupExists
  <1>5. Numbered' /\ Budget'
    BY <1>1, <1>2 DEF SupervisorTypeOK, CallShape, HandleShape, Numbered, Budget
  <1>6. Generations' /\ OthersAreOld'
    BY <1>1, <1>2 DEF SupervisorTypeOK, CallShape, HandleShape, Generations, OthersAreOld,
      GroupExists
  <1>7. ReadyShape' /\ SessionsAreCurrent'
    BY <1>1, <1>2 DEF SupervisorTypeOK, CallShape, ReadyShape, SessionsAreCurrent
  <1> QED
    BY <1>3, <1>4, <1>5, <1>6, <1>7

\* The probe times out.
LEMMA ProbeFailsKeeps == SupervisorInv /\ ProbeFails => SupervisorInv'
  <1> SUFFICES ASSUME SupervisorInv, ProbeFails PROVE SupervisorInv'
    OBVIOUS
  <1> USE SupervisorAssumption DEF SupervisorInv, ProbeFails, callVars, supervisorVars, handles,
        processVars, EnvUnchanged, Procs, ProbeMayTimeOut
  <1>1. \A p \in Procs : leader[p] # "unborn" <=> leader'[p] # "unborn"
    BY DEF SupervisorTypeOK, HandleShape
  <1>2. Spawned \in Nat /\ Spawned' = Spawned
    BY <1>1, SpawnedFacts, SameSpawned
  <1>3. SupervisorTypeOK'
    BY <1>1, <1>2 DEF SupervisorTypeOK, CallShape, HandleShape
  <1>4. CallShape' /\ HandleShape'
    BY <1>1, <1>2 DEF SupervisorTypeOK, CallShape, HandleShape, GroupExists
  <1>5. Numbered' /\ Budget'
    BY <1>1, <1>2 DEF SupervisorTypeOK, CallShape, HandleShape, Numbered, Budget
  <1>6. Generations' /\ OthersAreOld'
    BY <1>1, <1>2 DEF SupervisorTypeOK, CallShape, HandleShape, Generations, OthersAreOld,
      GroupExists
  <1>7. ReadyShape' /\ SessionsAreCurrent'
    BY <1>1, <1>2 DEF SupervisorTypeOK, CallShape, ReadyShape, SessionsAreCurrent
  <1> QED
    BY <1>3, <1>4, <1>5, <1>6, <1>7

\* A call that finds no group drops a handle it does not have.
LEMMA NothingToKillKeeps == SupervisorInv /\ NothingToKill => SupervisorInv'
  <1> SUFFICES ASSUME SupervisorInv, NothingToKill PROVE SupervisorInv'
    OBVIOUS
  <1> USE SupervisorAssumption DEF SupervisorInv, NothingToKill, callVars, supervisorVars,
        handles, processVars, EnvUnchanged, Procs
  <1>1. \A p \in Procs : leader[p] # "unborn" <=> leader'[p] # "unborn"
    BY DEF SupervisorTypeOK, HandleShape
  <1>2. Spawned \in Nat /\ Spawned' = Spawned
    BY <1>1, SpawnedFacts, SameSpawned
  <1>3. SupervisorTypeOK'
    BY <1>1, <1>2 DEF SupervisorTypeOK, CallShape, HandleShape
  <1>4. CallShape' /\ HandleShape'
    BY <1>1, <1>2 DEF SupervisorTypeOK, CallShape, HandleShape, GroupExists
  <1>5. Numbered' /\ Budget'
    BY <1>1, <1>2 DEF SupervisorTypeOK, CallShape, HandleShape, Numbered, Budget
  <1>6. Generations' /\ OthersAreOld'
    BY <1>1, <1>2 DEF SupervisorTypeOK, CallShape, HandleShape, Generations, OthersAreOld,
      GroupExists
  <1>7. ReadyShape' /\ SessionsAreCurrent'
    BY <1>1, <1>2 DEF SupervisorTypeOK, CallShape, ReadyShape, SessionsAreCurrent
  <1> QED
    BY <1>3, <1>4, <1>5, <1>6, <1>7

\* The group that was killed is gone, and no other exists beside it.
LEMMA VanishedKeeps == SupervisorInv /\ Vanished => SupervisorInv'
  <1> SUFFICES ASSUME SupervisorInv, Vanished PROVE SupervisorInv'
    OBVIOUS
  <1> USE SupervisorAssumption DEF SupervisorInv, Vanished, callVars, supervisorVars, handles,
        processVars, EnvUnchanged, Procs
  <1>1. \A p \in Procs : leader[p] # "unborn" <=> leader'[p] # "unborn"
    BY DEF SupervisorTypeOK, HandleShape
  <1>2. Spawned \in Nat /\ Spawned' = Spawned
    BY <1>1, SpawnedFacts, SameSpawned
  <1>3. SupervisorTypeOK'
    BY <1>1, <1>2 DEF SupervisorTypeOK, CallShape, HandleShape
  <1>4. CallShape' /\ HandleShape'
    BY <1>1, <1>2 DEF SupervisorTypeOK, CallShape, HandleShape, GroupExists
  <1>5. Numbered' /\ Budget'
    BY <1>1, <1>2 DEF SupervisorTypeOK, CallShape, HandleShape, Numbered, Budget
  <1>6. Generations' /\ OthersAreOld'
    BY <1>1, <1>2 DEF SupervisorTypeOK, CallShape, HandleShape, Generations, OthersAreOld,
      GroupExists
  <1>7. ReadyShape' /\ SessionsAreCurrent'
    BY <1>1, <1>2 DEF SupervisorTypeOK, CallShape, ReadyShape, SessionsAreCurrent
  <1> QED
    BY <1>3, <1>4, <1>5, <1>6, <1>7

\* The call fails and keeps the group.
LEMMA KillFailsKeeps == SupervisorInv /\ KillFails => SupervisorInv'
  <1> SUFFICES ASSUME SupervisorInv, KillFails PROVE SupervisorInv'
    OBVIOUS
  <1> USE SupervisorAssumption DEF SupervisorInv, KillFails, callVars, supervisorVars, handles,
        processVars, EnvUnchanged, Procs, Returns
  <1>1. \A p \in Procs : leader[p] # "unborn" <=> leader'[p] # "unborn"
    BY DEF SupervisorTypeOK, HandleShape
  <1>2. Spawned \in Nat /\ Spawned' = Spawned
    BY <1>1, SpawnedFacts, SameSpawned
  <1>3. SupervisorTypeOK'
    BY <1>1, <1>2 DEF SupervisorTypeOK, CallShape, HandleShape
  <1>4. CallShape' /\ HandleShape'
    BY <1>1, <1>2 DEF SupervisorTypeOK, CallShape, HandleShape, GroupExists
  <1>5. Numbered' /\ Budget'
    BY <1>1, <1>2 DEF SupervisorTypeOK, CallShape, HandleShape, Numbered, Budget
  <1>6. Generations' /\ OthersAreOld'
    BY <1>1, <1>2 DEF SupervisorTypeOK, CallShape, HandleShape, Generations, OthersAreOld,
      GroupExists
  <1>7. ReadyShape' /\ SessionsAreCurrent'
    BY <1>1, <1>2 DEF SupervisorTypeOK, CallShape, ReadyShape, SessionsAreCurrent
  <1> QED
    BY <1>3, <1>4, <1>5, <1>6, <1>7

\* The call fails with no group left.
LEMMA CleanupFailsKeeps == SupervisorInv /\ CleanupFails => SupervisorInv'
  <1> SUFFICES ASSUME SupervisorInv, CleanupFails PROVE SupervisorInv'
    OBVIOUS
  <1> USE SupervisorAssumption DEF SupervisorInv, CleanupFails, callVars, supervisorVars,
        handles, processVars, EnvUnchanged, Procs, Returns
  <1>1. \A p \in Procs : leader[p] # "unborn" <=> leader'[p] # "unborn"
    BY DEF SupervisorTypeOK, HandleShape
  <1>2. Spawned \in Nat /\ Spawned' = Spawned
    BY <1>1, SpawnedFacts, SameSpawned
  <1>3. SupervisorTypeOK'
    BY <1>1, <1>2 DEF SupervisorTypeOK, CallShape, HandleShape
  <1>4. CallShape' /\ HandleShape'
    BY <1>1, <1>2 DEF SupervisorTypeOK, CallShape, HandleShape, GroupExists
  <1>5. Numbered' /\ Budget'
    BY <1>1, <1>2 DEF SupervisorTypeOK, CallShape, HandleShape, Numbered, Budget
  <1>6. Generations' /\ OthersAreOld'
    BY <1>1, <1>2 DEF SupervisorTypeOK, CallShape, HandleShape, Generations, OthersAreOld,
      GroupExists
  <1>7. ReadyShape' /\ SessionsAreCurrent'
    BY <1>1, <1>2 DEF SupervisorTypeOK, CallShape, ReadyShape, SessionsAreCurrent
  <1> QED
    BY <1>3, <1>4, <1>5, <1>6, <1>7

\* The session is gone.
LEMMA CloseAcknowledgedKeeps == SupervisorInv /\ CloseAcknowledged => SupervisorInv'
  <1> SUFFICES ASSUME SupervisorInv, CloseAcknowledged PROVE SupervisorInv'
    OBVIOUS
  <1> USE SupervisorAssumption DEF SupervisorInv, CloseAcknowledged, callVars, supervisorVars,
        handles, processVars, EnvUnchanged, Procs, Returns
  <1>1. \A p \in Procs : leader[p] # "unborn" <=> leader'[p] # "unborn"
    BY DEF SupervisorTypeOK, HandleShape
  <1>2. Spawned \in Nat /\ Spawned' = Spawned
    BY <1>1, SpawnedFacts, SameSpawned
  <1>3. SupervisorTypeOK'
    BY <1>1, <1>2 DEF SupervisorTypeOK, CallShape, HandleShape
  <1>4. CallShape' /\ HandleShape'
    BY <1>1, <1>2 DEF SupervisorTypeOK, CallShape, HandleShape, GroupExists
  <1>5. Numbered' /\ Budget'
    BY <1>1, <1>2 DEF SupervisorTypeOK, CallShape, HandleShape, Numbered, Budget
  <1>6. Generations' /\ OthersAreOld'
    BY <1>1, <1>2 DEF SupervisorTypeOK, CallShape, HandleShape, Generations, OthersAreOld,
      GroupExists
  <1>7. ReadyShape' /\ SessionsAreCurrent'
    BY <1>1, <1>2 DEF SupervisorTypeOK, CallShape, ReadyShape, SessionsAreCurrent
  <1> QED
    BY <1>3, <1>4, <1>5, <1>6, <1>7

\* The session stays.
LEMMA CloseCancelledKeeps == SupervisorInv /\ CloseCancelled => SupervisorInv'
  <1> SUFFICES ASSUME SupervisorInv, CloseCancelled PROVE SupervisorInv'
    OBVIOUS
  <1> USE SupervisorAssumption DEF SupervisorInv, CloseCancelled, callVars, supervisorVars,
        handles, processVars, EnvUnchanged, Procs, Returns
  <1>1. \A p \in Procs : leader[p] # "unborn" <=> leader'[p] # "unborn"
    BY DEF SupervisorTypeOK, HandleShape
  <1>2. Spawned \in Nat /\ Spawned' = Spawned
    BY <1>1, SpawnedFacts, SameSpawned
  <1>3. SupervisorTypeOK'
    BY <1>1, <1>2 DEF SupervisorTypeOK, CallShape, HandleShape
  <1>4. CallShape' /\ HandleShape'
    BY <1>1, <1>2 DEF SupervisorTypeOK, CallShape, HandleShape, GroupExists
  <1>5. Numbered' /\ Budget'
    BY <1>1, <1>2 DEF SupervisorTypeOK, CallShape, HandleShape, Numbered, Budget
  <1>6. Generations' /\ OthersAreOld'
    BY <1>1, <1>2 DEF SupervisorTypeOK, CallShape, HandleShape, Generations, OthersAreOld,
      GroupExists
  <1>7. ReadyShape' /\ SessionsAreCurrent'
    BY <1>1, <1>2 DEF SupervisorTypeOK, CallShape, ReadyShape, SessionsAreCurrent
  <1> QED
    BY <1>3, <1>4, <1>5, <1>6, <1>7

\* The generation of a session that cannot be closed is given up.
LEMMA CloseTimeoutKeeps == SupervisorInv /\ CloseTimeout => SupervisorInv'
  <1> SUFFICES ASSUME SupervisorInv, CloseTimeout PROVE SupervisorInv'
    OBVIOUS
  <1> USE SupervisorAssumption DEF SupervisorInv, CloseTimeout, callVars, supervisorVars,
        handles, processVars, EnvUnchanged, Procs, set_unready, SessionsAfterUnready
  <1>1. \A p \in Procs : leader[p] # "unborn" <=> leader'[p] # "unborn"
    BY DEF SupervisorTypeOK, HandleShape
  <1>2. Spawned \in Nat /\ Spawned' = Spawned
    BY <1>1, SpawnedFacts, SameSpawned
  <1>3. SupervisorTypeOK'
    BY <1>1, <1>2 DEF SupervisorTypeOK, CallShape, HandleShape
  <1>4. CallShape' /\ HandleShape'
    BY <1>1, <1>2 DEF SupervisorTypeOK, CallShape, HandleShape, GroupExists
  <1>5. Numbered' /\ Budget'
    BY <1>1, <1>2 DEF SupervisorTypeOK, CallShape, HandleShape, Numbered, Budget
  <1>6. Generations' /\ OthersAreOld'
    BY <1>1, <1>2 DEF SupervisorTypeOK, CallShape, HandleShape, Generations, OthersAreOld,
      GroupExists
  <1>7. ReadyShape' /\ SessionsAreCurrent'
    BY <1>1, <1>2 DEF SupervisorTypeOK, CallShape, ReadyShape, SessionsAreCurrent
  <1> QED
    BY <1>3, <1>4, <1>5, <1>6, <1>7

\* A shutdown lets go of the readiness and of the sessions.
LEMMA ShutdownCallKeeps == SupervisorInv /\ ShutdownCall => SupervisorInv'
  <1> SUFFICES ASSUME SupervisorInv, ShutdownCall PROVE SupervisorInv'
    OBVIOUS
  <1> USE SupervisorAssumption DEF SupervisorInv, ShutdownCall, callVars, supervisorVars,
        handles, processVars, EnvUnchanged, Procs, set_unready, SessionsAfterUnready
  <1>1. \A p \in Procs : leader[p] # "unborn" <=> leader'[p] # "unborn"
    BY DEF SupervisorTypeOK, HandleShape
  <1>2. Spawned \in Nat /\ Spawned' = Spawned
    BY <1>1, SpawnedFacts, SameSpawned
  <1>3. SupervisorTypeOK'
    BY <1>1, <1>2 DEF SupervisorTypeOK, CallShape, HandleShape
  <1>4. CallShape' /\ HandleShape'
    BY <1>1, <1>2 DEF SupervisorTypeOK, CallShape, HandleShape, GroupExists
  <1>5. Numbered' /\ Budget'
    BY <1>1, <1>2 DEF SupervisorTypeOK, CallShape, HandleShape, Numbered, Budget
  <1>6. Generations' /\ OthersAreOld'
    BY <1>1, <1>2 DEF SupervisorTypeOK, CallShape, HandleShape, Generations, OthersAreOld,
      GroupExists
  <1>7. ReadyShape' /\ SessionsAreCurrent'
    BY <1>1, <1>2 DEF SupervisorTypeOK, CallShape, ReadyShape, SessionsAreCurrent
  <1> QED
    BY <1>3, <1>4, <1>5, <1>6, <1>7

\* The group that is held is killed, and stays held.
LEMMA KillGroupKeeps == SupervisorInv /\ KillGroup => SupervisorInv'
  <1> SUFFICES ASSUME SupervisorInv, KillGroup PROVE SupervisorInv'
    OBVIOUS
  <1> USE SupervisorAssumption DEF SupervisorInv, KillGroup, callVars, supervisorVars, handles,
        processVars, EnvUnchanged, Procs
  <1>1. \A p \in Procs : leader[p] # "unborn" <=> leader'[p] # "unborn"
    BY DEF SupervisorTypeOK, HandleShape
  <1>2. Spawned \in Nat /\ Spawned' = Spawned
    BY <1>1, SpawnedFacts, SameSpawned
  <1>3. SupervisorTypeOK'
    BY <1>1, <1>2 DEF SupervisorTypeOK, CallShape, HandleShape
  <1>4. CallShape' /\ HandleShape'
    BY <1>1, <1>2 DEF SupervisorTypeOK, CallShape, HandleShape, GroupExists
  <1>5. Numbered' /\ Budget'
    BY <1>1, <1>2 DEF SupervisorTypeOK, CallShape, HandleShape, Numbered, Budget
  <1>6. Generations' /\ OthersAreOld'
    BY <1>1, <1>2 DEF SupervisorTypeOK, CallShape, HandleShape, Generations, OthersAreOld,
      GroupExists
  <1>7. ReadyShape' /\ SessionsAreCurrent'
    BY <1>1, <1>2 DEF SupervisorTypeOK, CallShape, ReadyShape, SessionsAreCurrent
  <1> QED
    BY <1>3, <1>4, <1>5, <1>6, <1>7

\* SIGTERM ended the group that is held.
LEMMA TermEndsKeeps == SupervisorInv /\ TermEnds => SupervisorInv'
  <1> SUFFICES ASSUME SupervisorInv, TermEnds PROVE SupervisorInv'
    OBVIOUS
  <1> USE SupervisorAssumption DEF SupervisorInv, TermEnds, callVars, supervisorVars, handles,
        processVars, EnvUnchanged, Procs, GroupGone
  <1>1. \A p \in Procs : leader[p] # "unborn" <=> leader'[p] # "unborn"
    BY DEF SupervisorTypeOK, HandleShape
  <1>2. Spawned \in Nat /\ Spawned' = Spawned
    BY <1>1, SpawnedFacts, SameSpawned
  <1>3. SupervisorTypeOK'
    BY <1>1, <1>2 DEF SupervisorTypeOK, CallShape, HandleShape
  <1>4. CallShape' /\ HandleShape'
    BY <1>1, <1>2 DEF SupervisorTypeOK, CallShape, HandleShape, GroupExists
  <1>5. Numbered' /\ Budget'
    BY <1>1, <1>2 DEF SupervisorTypeOK, CallShape, HandleShape, Numbered, Budget
  <1>6. Generations' /\ OthersAreOld'
    BY <1>1, <1>2 DEF SupervisorTypeOK, CallShape, HandleShape, Generations, OthersAreOld,
      GroupExists
  <1>7. ReadyShape' /\ SessionsAreCurrent'
    BY <1>1, <1>2 DEF SupervisorTypeOK, CallShape, ReadyShape, SessionsAreCurrent
  <1> QED
    BY <1>3, <1>4, <1>5, <1>6, <1>7

\* A session is registered in the generation that is ready.
LEMMA RegisterSessionKeeps == 
    ASSUME NEW s \in Sessions
    PROVE  SupervisorInv /\ RegisterSession(s) => SupervisorInv'
  <1> SUFFICES ASSUME SupervisorInv, RegisterSession(s) PROVE SupervisorInv'
    OBVIOUS
  <1> USE SupervisorAssumption DEF SupervisorInv, RegisterSession, callVars, supervisorVars,
        handles, processVars, EnvUnchanged, Procs, ChildRuns
  <1>1. \A p \in Procs : leader[p] # "unborn" <=> leader'[p] # "unborn"
    BY DEF SupervisorTypeOK, HandleShape
  <1>2. Spawned \in Nat /\ Spawned' = Spawned
    BY <1>1, SpawnedFacts, SameSpawned
  <1>3. SupervisorTypeOK'
    BY <1>1, <1>2 DEF SupervisorTypeOK, CallShape, HandleShape
  <1>4. CallShape' /\ HandleShape'
    BY <1>1, <1>2 DEF SupervisorTypeOK, CallShape, HandleShape, GroupExists
  <1>5. Numbered' /\ Budget'
    BY <1>1, <1>2 DEF SupervisorTypeOK, CallShape, HandleShape, Numbered, Budget
  <1>6. Generations' /\ OthersAreOld'
    BY <1>1, <1>2 DEF SupervisorTypeOK, CallShape, HandleShape, Generations, OthersAreOld,
      GroupExists
  <1>7. ReadyShape' /\ SessionsAreCurrent'
    BY <1>1, <1>2 DEF SupervisorTypeOK, CallShape, ReadyShape, SessionsAreCurrent
  <1> QED
    BY <1>3, <1>4, <1>5, <1>6, <1>7

\* A close begins.
LEMMA CloseCallKeeps == 
    ASSUME NEW s \in Sessions
    PROVE  SupervisorInv /\ CloseCall(s) => SupervisorInv'
  <1> SUFFICES ASSUME SupervisorInv, CloseCall(s) PROVE SupervisorInv'
    OBVIOUS
  <1> USE SupervisorAssumption DEF SupervisorInv, CloseCall, callVars, supervisorVars, handles,
        processVars, EnvUnchanged, Procs, ChildRuns, CanSpawn
  <1>1. \A p \in Procs : leader[p] # "unborn" <=> leader'[p] # "unborn"
    BY DEF SupervisorTypeOK, HandleShape
  <1>2. Spawned \in Nat /\ Spawned' = Spawned
    BY <1>1, SpawnedFacts, SameSpawned
  <1>3. SupervisorTypeOK'
    BY <1>1, <1>2 DEF SupervisorTypeOK, CallShape, HandleShape
  <1>4. CallShape' /\ HandleShape'
    BY <1>1, <1>2 DEF SupervisorTypeOK, CallShape, HandleShape, GroupExists
  <1>5. Numbered' /\ Budget'
    BY <1>1, <1>2 DEF SupervisorTypeOK, CallShape, HandleShape, Numbered, Budget
  <1>6. Generations' /\ OthersAreOld'
    BY <1>1, <1>2 DEF SupervisorTypeOK, CallShape, HandleShape, Generations, OthersAreOld,
      GroupExists
  <1>7. ReadyShape' /\ SessionsAreCurrent'
    BY <1>1, <1>2 DEF SupervisorTypeOK, CallShape, ReadyShape, SessionsAreCurrent
  <1> QED
    BY <1>3, <1>4, <1>5, <1>6, <1>7

----------------------------------------------------------------------------
(* The processes by themselves.                                            *)

\* A leader exits.
LEMMA LeaderExitsKeeps == 
    ASSUME NEW p \in Procs
    PROVE  SupervisorInv /\ LeaderExits(p) => SupervisorInv'
  <1> SUFFICES ASSUME SupervisorInv, LeaderExits(p) PROVE SupervisorInv'
    OBVIOUS
  <1> USE SupervisorAssumption DEF SupervisorInv, LeaderExits, callVars, supervisorVars,
        handles, processVars, EnvUnchanged, Procs
  <1>1. \A q \in Procs : leader[q] # "unborn" <=> leader'[q] # "unborn"
    BY DEF SupervisorTypeOK, HandleShape
  <1>2. Spawned \in Nat /\ Spawned' = Spawned
    BY <1>1, SpawnedFacts, SameSpawned
  <1>3. SupervisorTypeOK'
    BY <1>1, <1>2 DEF SupervisorTypeOK, CallShape, HandleShape
  <1>4. CallShape' /\ HandleShape'
    BY <1>1, <1>2 DEF SupervisorTypeOK, CallShape, HandleShape, GroupExists
  <1>5. Numbered' /\ Budget'
    BY <1>1, <1>2 DEF SupervisorTypeOK, CallShape, HandleShape, Numbered, Budget
  <1>6. Generations' /\ OthersAreOld'
    BY <1>1, <1>2 DEF SupervisorTypeOK, CallShape, HandleShape, Generations, OthersAreOld,
      GroupExists
  <1>7. ReadyShape' /\ SessionsAreCurrent'
    BY <1>1, <1>2 DEF SupervisorTypeOK, CallShape, ReadyShape, SessionsAreCurrent
  <1> QED
    BY <1>3, <1>4, <1>5, <1>6, <1>7

\* A leader forks.
LEMMA ForksKeeps == 
    ASSUME NEW p \in Procs
    PROVE  SupervisorInv /\ Forks(p) => SupervisorInv'
  <1> SUFFICES ASSUME SupervisorInv, Forks(p) PROVE SupervisorInv'
    OBVIOUS
  <1> USE SupervisorAssumption DEF SupervisorInv, Forks, callVars, supervisorVars, handles,
        processVars, EnvUnchanged, Procs
  <1>1. \A q \in Procs : leader[q] # "unborn" <=> leader'[q] # "unborn"
    BY DEF SupervisorTypeOK, HandleShape
  <1>2. Spawned \in Nat /\ Spawned' = Spawned
    BY <1>1, SpawnedFacts, SameSpawned
  <1>3. SupervisorTypeOK'
    BY <1>1, <1>2 DEF SupervisorTypeOK, CallShape, HandleShape
  <1>4. CallShape' /\ HandleShape'
    BY <1>1, <1>2 DEF SupervisorTypeOK, CallShape, HandleShape, GroupExists
  <1>5. Numbered' /\ Budget'
    BY <1>1, <1>2 DEF SupervisorTypeOK, CallShape, HandleShape, Numbered, Budget
  <1>6. Generations' /\ OthersAreOld'
    BY <1>1, <1>2 DEF SupervisorTypeOK, CallShape, HandleShape, Generations, OthersAreOld,
      GroupExists
  <1>7. ReadyShape' /\ SessionsAreCurrent'
    BY <1>1, <1>2 DEF SupervisorTypeOK, CallShape, ReadyShape, SessionsAreCurrent
  <1> QED
    BY <1>3, <1>4, <1>5, <1>6, <1>7

\* The descendants exit.
LEMMA DescendantsExitKeeps == 
    ASSUME NEW p \in Procs
    PROVE  SupervisorInv /\ DescendantsExit(p) => SupervisorInv'
  <1> SUFFICES ASSUME SupervisorInv, DescendantsExit(p) PROVE SupervisorInv'
    OBVIOUS
  <1> USE SupervisorAssumption DEF SupervisorInv, DescendantsExit, callVars, supervisorVars,
        handles, processVars, EnvUnchanged, Procs
  <1>1. \A q \in Procs : leader[q] # "unborn" <=> leader'[q] # "unborn"
    BY DEF SupervisorTypeOK, HandleShape
  <1>2. Spawned \in Nat /\ Spawned' = Spawned
    BY <1>1, SpawnedFacts, SameSpawned
  <1>3. SupervisorTypeOK'
    BY <1>1, <1>2 DEF SupervisorTypeOK, CallShape, HandleShape
  <1>4. CallShape' /\ HandleShape'
    BY <1>1, <1>2 DEF SupervisorTypeOK, CallShape, HandleShape, GroupExists
  <1>5. Numbered' /\ Budget'
    BY <1>1, <1>2 DEF SupervisorTypeOK, CallShape, HandleShape, Numbered, Budget
  <1>6. Generations' /\ OthersAreOld'
    BY <1>1, <1>2 DEF SupervisorTypeOK, CallShape, HandleShape, Generations, OthersAreOld,
      GroupExists
  <1>7. ReadyShape' /\ SessionsAreCurrent'
    BY <1>1, <1>2 DEF SupervisorTypeOK, CallShape, ReadyShape, SessionsAreCurrent
  <1> QED
    BY <1>3, <1>4, <1>5, <1>6, <1>7

\* A process binds the path.
LEMMA BindsKeeps == 
    ASSUME NEW p \in Procs
    PROVE  SupervisorInv /\ Binds(p) => SupervisorInv'
  <1> SUFFICES ASSUME SupervisorInv, Binds(p) PROVE SupervisorInv'
    OBVIOUS
  <1> USE SupervisorAssumption DEF SupervisorInv, Binds, callVars, supervisorVars, handles,
        processVars, EnvUnchanged, Procs, Runs
  <1>1. \A q \in Procs : leader[q] # "unborn" <=> leader'[q] # "unborn"
    BY DEF SupervisorTypeOK, HandleShape
  <1>2. Spawned \in Nat /\ Spawned' = Spawned
    BY <1>1, SpawnedFacts, SameSpawned
  <1>3. SupervisorTypeOK'
    BY <1>1, <1>2 DEF SupervisorTypeOK, CallShape, HandleShape
  <1>4. CallShape' /\ HandleShape'
    BY <1>1, <1>2 DEF SupervisorTypeOK, CallShape, HandleShape, GroupExists
  <1>5. Numbered' /\ Budget'
    BY <1>1, <1>2 DEF SupervisorTypeOK, CallShape, HandleShape, Numbered, Budget
  <1>6. Generations' /\ OthersAreOld'
    BY <1>1, <1>2 DEF SupervisorTypeOK, CallShape, HandleShape, Generations, OthersAreOld,
      GroupExists
  <1>7. ReadyShape' /\ SessionsAreCurrent'
    BY <1>1, <1>2 DEF SupervisorTypeOK, CallShape, ReadyShape, SessionsAreCurrent
  <1> QED
    BY <1>3, <1>4, <1>5, <1>6, <1>7

----------------------------------------------------------------------------
(* Starts: generations, reaping and spawning.                              *)

\* Zero stands for no process.
LEMMA NoProcessZero == 0 \notin Procs
  BY SupervisorAssumption DEF Procs

\* A launch that is kept or made anew is no older than the processes that exist, and is
\* not the launch of one that was not of the last one.
LEMMA LaunchFacts ==
    ASSUME SupervisorTypeOK, Generations, UNCHANGED <<launch, launches>> \/ new_launch
    PROVE  /\ launch' \in Nat /\ launches' \in Nat
           /\ launches <= launches' /\ launch' <= launches'
           /\ launch # 0 => launch' # 0
           /\ \A p \in Procs : leader[p] # "unborn"
                => gen[p] # 0 /\ gen[p] <= launches' /\ (gen[p] # launch => gen[p] # launch')
  BY DEF SupervisorTypeOK, Generations, new_launch

\* What the next attempt, or the end of the last one, does to the call.
LEMMA NextAttemptFacts ==
    ASSUME SupervisorTypeOK, CallShape, op = "start", NextAttempt
    PROVE  /\ UNCHANGED <<launch, launches>> \/ new_launch
           /\ attempt' \in 0..(MaxAttempts - 1)
           /\ \/ op' = "start" /\ pc' = "spawn" /\ attempt' = attempt + 1
              \/ op' = "none" /\ pc' = "idle" /\ launch' = launch
           /\ result' \in {"none", "ok", "err"} /\ closing' \subseteq Sessions
  BY SupervisorAssumption DEF SupervisorTypeOK, CallShape, NextAttempt, LastAttempt, Returns

\* Reaping the child keeps the group while a descendant is in it, and loses no other.
LEMMA ReapFacts ==
    ASSUME SupervisorTypeOK, HandleShape, Numbered, ReapChild, kin' = kin
    PROVE  /\ leader' \in [Procs -> {"unborn", "alive", "zombie", "gone"}]
           /\ child' = 0 /\ pgid' \in {0, pgid}
           /\ pgid' # 0 => leader'[pgid'] = "gone"
           /\ \A p \in Procs : leader[p] # "unborn" <=> leader'[p] # "unborn"
           /\ \A p \in Procs : GroupExists(p)' /\ p # pgid' => GroupExists(p) /\ p # pgid
  <1>1. /\ leader' \in [Procs -> {"unborn", "alive", "zombie", "gone"}]
        /\ child' = 0 /\ pgid' \in {0, pgid} /\ (pgid' = 0 => pgid = 0 \/ ~kin[pgid])
        /\ \A p \in Procs : leader'[p] = IF p = child THEN "gone" ELSE leader[p]
    BY DEF SupervisorTypeOK, ReapChild, GroupAfterLeader
  <1>2. pgid # 0 => leader'[pgid] = "gone"
    BY <1>1 DEF SupervisorTypeOK, HandleShape
  <1>3. \A p \in Procs : leader[p] # "unborn" <=> leader'[p] # "unborn"
    BY <1>1, NoProcessZero DEF SupervisorTypeOK, HandleShape
  <1>4. \A p \in Procs : GroupExists(p)' /\ p # pgid' => GroupExists(p) /\ p # pgid
    BY <1>1, <1>2 DEF SupervisorTypeOK, GroupExists
  <1> QED
    BY <1>1, <1>2, <1>3, <1>4

\* A start lets go of the readiness and of the sessions, and has a generation.
LEMMA StartCallKeeps == SupervisorInv /\ StartCall => SupervisorInv'
  <1> SUFFICES ASSUME SupervisorInv, StartCall PROVE SupervisorInv'
    OBVIOUS
  <1> USE DEF SupervisorInv
  <1>1. /\ op' = "start" /\ pc' = "spawn" /\ attempt' = 0 /\ ready' = FALSE /\ sessions' = {}
        /\ UNCHANGED <<closing, result, reg, served, child, pgid, leader, kin, killed, gen, socket>>
        /\ IF launch = 0 THEN new_launch ELSE UNCHANGED <<launch, launches>>
    BY DEF StartCall, set_unready, SessionsAfterUnready, handles, processVars
  <1>2. Spawned \in Nat /\ Spawned' = Spawned /\ Spawned + MaxAttempts <= MaxSpawns
    BY <1>1, SpawnedFacts DEF StartCall, CanSpawn, Spawned
  <1>3. SupervisorTypeOK'
    <2>1. attempt' \in 0..(MaxAttempts - 1)
      BY <1>1, SupervisorAssumption
    <2> QED
      BY <1>1, <2>1, LaunchFacts DEF SupervisorTypeOK
  <1>4. CallShape' /\ HandleShape'
    BY <1>1 DEF CallShape, HandleShape
  <1>5. Numbered' /\ Budget'
    BY <1>1, <1>2, SupervisorAssumption DEF Numbered, Budget
  <1>6. Generations' /\ OthersAreOld'
    <2>1. launch' # 0
      BY <1>1 DEF new_launch, SupervisorTypeOK
    <2>2. \A p \in Procs : GroupExists(p) => leader[p] # "unborn"
      BY DEF GroupExists, Numbered
    <2> QED
      BY <1>1, <2>1, <2>2, LaunchFacts DEF Generations, OthersAreOld, GroupExists
  <1>7. ReadyShape' /\ SessionsAreCurrent'
    BY <1>1 DEF ReadyShape, SessionsAreCurrent
  <1> QED
    BY <1>3, <1>4, <1>5, <1>6, <1>7

\* A start that cannot spawn, because its last child or its group is still there, or
\* because of an error: what was polled is reaped, and the next attempt begins.
LEMMA NoSpawnKeeps == SupervisorInv /\ (StartRefused \/ SpawnFails) => SupervisorInv'
  <1> SUFFICES ASSUME SupervisorInv, StartRefused \/ SpawnFails PROVE SupervisorInv'
    OBVIOUS
  <1> USE DEF SupervisorInv
  <1>1. /\ pc = "spawn" /\ NextAttempt
        /\ UNCHANGED <<ready, sessions, reg, served, kin, killed, gen, socket>>
        /\ UNCHANGED <<leader, child, pgid>> \/ ReapChild
    BY DEF StartRefused, SpawnFails, PollUnchanged, handles
  <1>2. op = "start" /\ ~ready
    BY <1>1 DEF SupervisorTypeOK, CallShape, ReadyShape
  <1>3. /\ leader' \in [Procs -> {"unborn", "alive", "zombie", "gone"}]
        /\ child' \in {0, child} /\ pgid' \in {0, pgid} /\ (child' # 0 => child' = pgid')
        /\ pgid' # 0 => leader'[pgid'] # "unborn"
        /\ pgid' # 0 /\ child' = 0 => leader'[pgid'] = "gone"
        /\ \A p \in Procs : leader[p] # "unborn" <=> leader'[p] # "unborn"
        /\ \A p \in Procs : GroupExists(p)' /\ p # pgid' => GroupExists(p) /\ p # pgid
    <2>1. CASE UNCHANGED <<leader, child, pgid>>
      BY <1>1, <2>1 DEF SupervisorTypeOK, HandleShape, GroupExists
    <2>2. CASE ReapChild
      BY <1>1, <2>2, ReapFacts
    <2> QED
      BY <1>1, <2>1, <2>2
  <1>4. Spawned \in Nat /\ Spawned' = Spawned
    BY <1>3, SpawnedFacts, SameSpawned
  <1>5. SupervisorTypeOK'
    BY <1>1, <1>2, <1>3, NextAttemptFacts, LaunchFacts DEF SupervisorTypeOK
  <1>6. CallShape' /\ HandleShape'
    BY <1>2, <1>3, <1>1, NextAttemptFacts DEF CallShape, HandleShape
  <1>7. Numbered' /\ Budget'
    BY <1>1, <1>2, <1>3, <1>4, NextAttemptFacts, SupervisorAssumption
      DEF Numbered, Budget, SupervisorTypeOK
  <1>8. Generations' /\ OthersAreOld'
    <2>1. \A p \in Procs : GroupExists(p) => leader[p] # "unborn"
      BY DEF GroupExists, Numbered
    <2> QED
      BY <1>1, <1>2, <1>3, <2>1, NextAttemptFacts, LaunchFacts DEF Generations, OthersAreOld
  <1>9. ReadyShape' /\ SessionsAreCurrent'
    BY <1>1, <1>2 DEF ReadyShape, SessionsAreCurrent
  <1> QED
    BY <1>5, <1>6, <1>7, <1>8, <1>9

\* The process spawned is a new one, and nobody but groups killed before is beside it.
LEMMA SpawnKeeps == SupervisorInv /\ Spawn => SupervisorInv'
  <1> SUFFICES ASSUME SupervisorInv, Spawn PROVE SupervisorInv'
    OBVIOUS
  <1> USE DEF SupervisorInv
  <1> DEFINE n == Spawned + 1
  <1>1. /\ pc = "spawn" /\ pc' = "probe" /\ (child = 0 \/ leader[child] # "alive")
        /\ pgid = 0 \/ ~kin[pgid]
        /\ child' = n /\ pgid' = n /\ gen' = [gen EXCEPT ![n] = launch]
        /\ leader' = [p \in Procs |-> IF p = n THEN "alive"
                                      ELSE IF p = child THEN "gone" ELSE leader[p]]
        /\ UNCHANGED <<op, attempt, closing, result, launch, launches, ready, sessions, reg,
                       served, kin, killed, socket>>
    BY DEF Spawn, ChildRuns, GroupAfterLeader, supervisorVars, SupervisorTypeOK
  <1>2. op = "start" /\ ~ready
    BY <1>1 DEF SupervisorTypeOK, CallShape, ReadyShape
  <1>3. n \in Procs /\ Spawned \in Nat
    <2>1. Spawned \in Nat /\ attempt \in Nat /\ attempt < MaxAttempts
      BY SpawnedFacts, SupervisorAssumption DEF SupervisorTypeOK
    <2>2. Spawned + MaxAttempts <= MaxSpawns + attempt
      BY <1>1, <1>2 DEF Budget
    <2> QED
      BY <2>1, <2>2, SupervisorAssumption DEF Procs
  <1>4. leader[n] = "unborn" /\ ~kin[n] /\ n # pgid /\ n # 0
    BY <1>3 DEF Numbered, HandleShape, SupervisorTypeOK, Procs
  <1> HIDE DEF n
  <1>5. /\ leader' \in [Procs -> {"unborn", "alive", "zombie", "gone"}] /\ leader'[n] = "alive"
        /\ gen' \in [Procs -> Nat] /\ gen'[n] = launch
        /\ \A p \in Procs \ {n} :
             /\ gen'[p] = gen[p]
             /\ leader'[p] = IF p = child THEN "gone" ELSE leader[p]
    BY <1>1, <1>3 DEF SupervisorTypeOK
  <1>6. \A p \in Procs \ {n} : leader'[p] # "unborn" <=> leader[p] # "unborn"
    BY <1>5, NoProcessZero DEF SupervisorTypeOK, HandleShape
  <1>7. Spawned' = n
    <2>1. Born' = Born \cup {n} /\ n \notin Born
      BY <1>3, <1>4, <1>5, <1>6 DEF Born
    <2>2. Cardinality(Born') = n
      BY <2>1, SpawnedFacts, FS_AddElement DEF n
    <2> QED
      BY <2>2 DEF Spawned, Born
  <1>8. SupervisorTypeOK'
    BY <1>1, <1>3, <1>5 DEF SupervisorTypeOK
  <1>9. CallShape' /\ HandleShape'
    BY <1>1, <1>2, <1>4, <1>5 DEF CallShape, HandleShape
  <1>10. Numbered' /\ Budget'
    <2>1. \A p \in Procs : leader'[p] # "unborn" <=> p <= n
      BY <1>3, <1>5, <1>6 DEF Numbered, n, Procs
    <2>2. \A p \in Procs : kin'[p] => leader'[p] # "unborn"
      BY <1>1, <1>3, <1>4, <1>6 DEF Numbered
    <2>3. Budget'
      BY <1>1, <1>2, <1>3, <1>7, SupervisorAssumption DEF Budget, n, SupervisorTypeOK
    <2> QED
      BY <1>7, <2>1, <2>2, <2>3 DEF Numbered
  <1>11. Generations'
    BY <1>1, <1>2, <1>3, <1>4, <1>5, <1>6 DEF Generations, SupervisorTypeOK
  <1>12. OthersAreOld'
    <2>1. \A p \in Procs \ {n} : GroupExists(p)' => GroupExists(p) /\ p # pgid
      <3>1. pgid # 0 => leader'[pgid] = "gone"
        BY <1>4, <1>5 DEF HandleShape, SupervisorTypeOK
      <3> QED
        BY <1>1, <1>5, <3>1, NoProcessZero DEF GroupExists
    <2> QED
      BY <1>1, <1>5, <2>1 DEF OthersAreOld
  <1>13. ReadyShape' /\ SessionsAreCurrent'
    BY <1>1, <1>2 DEF ReadyShape, SessionsAreCurrent
  <1> QED
    BY <1>8, <1>9, <1>10, <1>11, <1>12, <1>13

\* The probe finds the child gone and reaps it.
LEMMA ProbeChildGoneKeeps == SupervisorInv /\ ProbeChildGone => SupervisorInv'
  <1> SUFFICES ASSUME SupervisorInv, ProbeChildGone PROVE SupervisorInv'
    OBVIOUS
  <1> USE DEF SupervisorInv
  <1>1. /\ pc = "probe" /\ pc' = "reap" /\ ReapChild
        /\ UNCHANGED <<op, attempt, closing, result, launch, launches, ready, sessions, reg,
                       served, kin, killed, gen, socket>>
    BY DEF ProbeChildGone, supervisorVars
  <1>2. op = "start" /\ ~ready
    BY <1>1 DEF SupervisorTypeOK, CallShape, ReadyShape
  <1>3. Spawned \in Nat /\ Spawned' = Spawned
    BY <1>1, ReapFacts, SpawnedFacts, SameSpawned
  <1>4. SupervisorTypeOK'
    BY <1>1, ReapFacts DEF SupervisorTypeOK
  <1>5. CallShape' /\ HandleShape'
    BY <1>1, <1>2, ReapFacts DEF CallShape, HandleShape
  <1>6. Numbered' /\ Budget'
    BY <1>1, <1>3, ReapFacts DEF Numbered, Budget
  <1>7. Generations' /\ OthersAreOld'
    BY <1>1, ReapFacts DEF Generations, OthersAreOld
  <1>8. ReadyShape' /\ SessionsAreCurrent'
    BY <1>1, <1>2 DEF ReadyShape, SessionsAreCurrent
  <1> QED
    BY <1>4, <1>5, <1>6, <1>7, <1>8

\* The process that answers with the generation of the launch is the child.
LEMMA ProbeAnswersKeeps == SupervisorInv /\ ProbeAnswers => SupervisorInv'
  <1> SUFFICES ASSUME SupervisorInv, ProbeAnswers PROVE SupervisorInv'
    OBVIOUS
  <1> USE DEF SupervisorInv
  <1>1. /\ pc = "connect" /\ socket # 0 /\ GroupExists(socket)
        /\ UNCHANGED <<attempt, launch, launches, sessions, reg, child, pgid, leader, kin,
                       killed, gen, socket>>
        /\ \/ /\ gen[socket] = launch /\ ready' = TRUE /\ served' = socket /\ op' = "none"
              /\ pc' = "idle" /\ result' = "ok" /\ closing' = {}
           \/ pc' = "reap" /\ UNCHANGED <<ready, served, op, result, closing>>
    BY DEF ProbeAnswers, Listening, Runs, GroupExists, SameGeneration, Returns, handles,
           processVars
  <1>2. op = "start" /\ ~ready
    BY <1>1 DEF SupervisorTypeOK, CallShape, ReadyShape
  <1>3. Spawned' = Spawned
    BY <1>1 DEF Spawned
  <1>4. SupervisorTypeOK'
    BY <1>1 DEF SupervisorTypeOK
  <1>5. CallShape' /\ HandleShape'
    BY <1>1, <1>2 DEF CallShape, HandleShape
  <1>6. Numbered' /\ Budget'
    BY <1>1, <1>2, <1>3 DEF Numbered, Budget
  <1>7. Generations' /\ OthersAreOld'
    BY <1>1, <1>2 DEF Generations, OthersAreOld, GroupExists
  <1>8. gen[socket] = launch => socket = child
    BY <1>1 DEF OthersAreOld, HandleShape, Generations, SupervisorTypeOK
  <1>9. ReadyShape'
    BY <1>1, <1>2, <1>8 DEF ReadyShape
  <1>10. SessionsAreCurrent'
    BY <1>1, <1>2 DEF SessionsAreCurrent
  <1> QED
    BY <1>4, <1>5, <1>6, <1>7, <1>9, <1>10

\* A poll that finds the child gone takes the readiness and the sessions with it.
LEMMA IsReadyKeeps == SupervisorInv /\ IsReady => SupervisorInv'
  <1> SUFFICES ASSUME SupervisorInv, IsReady PROVE SupervisorInv'
    OBVIOUS
  <1> USE DEF SupervisorInv
  <1>1. /\ op = "none" /\ UNCHANGED <<op, pc, attempt, closing, result, launch, launches, reg,
                                      served, kin, killed, gen, socket>>
        /\ \/ UNCHANGED <<ready, sessions, leader, child, pgid>>
           \/ ReapChild /\ ready' = FALSE /\ sessions' = {}
    BY DEF IsReady, Refresh, PollUnchanged, set_unready, SessionsAfterUnready, callVars, handles
  <1>2. CASE UNCHANGED <<ready, sessions, leader, child, pgid>>
    <2>1. Spawned' = Spawned
      BY <1>2 DEF Spawned
    <2> QED
      BY <1>1, <1>2, <2>1 DEF SupervisorTypeOK, CallShape, HandleShape, Numbered, Budget,
         Generations, OthersAreOld, GroupExists, ReadyShape, SessionsAreCurrent
  <1>3. CASE ReapChild /\ ready' = FALSE /\ sessions' = {}
    <2>1. pc = "idle"
      BY <1>1 DEF CallShape
    <2>2. Spawned \in Nat /\ Spawned' = Spawned
      BY <1>1, <1>3, ReapFacts, SpawnedFacts, SameSpawned
    <2>3. SupervisorTypeOK'
      BY <1>1, <1>3, ReapFacts DEF SupervisorTypeOK
    <2>4. CallShape' /\ HandleShape'
      BY <1>1, <1>3, <2>1, ReapFacts DEF CallShape, HandleShape
    <2>5. Numbered' /\ Budget'
      BY <1>1, <1>3, <2>2, ReapFacts DEF Numbered, Budget
    <2>6. Generations' /\ OthersAreOld'
      BY <1>1, <1>3, <2>1, ReapFacts DEF Generations, OthersAreOld
    <2>7. ReadyShape' /\ SessionsAreCurrent'
      BY <1>3 DEF ReadyShape, SessionsAreCurrent
    <2> QED
      BY <2>3, <2>4, <2>5, <2>6, <2>7
  <1> QED
    BY <1>1, <1>2, <1>3

\* The socket is removed: the call ends, or a start goes on with a generation of its own.
LEMMA CleanupKeeps == SupervisorInv /\ Cleanup => SupervisorInv'
  <1> SUFFICES ASSUME SupervisorInv, Cleanup PROVE SupervisorInv'
    OBVIOUS
  <1> USE DEF SupervisorInv
  <1>1. /\ pc = "cleanup" /\ pgid = 0 /\ child = 0 /\ ~ready /\ sessions = {}
        /\ socket' = 0 /\ UNCHANGED <<reg, served, child, pgid, leader, kin, killed, gen>>
    BY DEF Cleanup, handles, HandleShape, SupervisorTypeOK, ReadyShape, CallShape,
           SessionsAreCurrent
  <1>2. Spawned \in Nat /\ Spawned' = Spawned
    BY <1>1, SpawnedFacts DEF Spawned
  <1>3. /\ ready' = FALSE /\ sessions' = {}
        /\ UNCHANGED <<launch, launches>> \/ new_launch
        /\ attempt' \in 0..(MaxAttempts - 1)
        /\ result' \in {"none", "ok", "err"} /\ closing' \subseteq Sessions
        /\ \/ op = "start" /\ op' = "start" /\ pc' = "spawn" /\ attempt' = attempt + 1
           \/ op = "close" /\ op' = "start" /\ pc' = "spawn" /\ attempt' = 0 /\ new_launch
           \/ op' = "none" /\ pc' = "idle"
    <2>1. CASE op = "start" /\ NextAttempt /\ UNCHANGED <<ready, sessions>>
      BY <1>1, <2>1, NextAttemptFacts
    <2>2. CASE op # "start"
      BY <1>1, <2>2, SupervisorAssumption
        DEF Cleanup, Returns, set_unready, SessionsAfterUnready, SupervisorTypeOK
    <2> QED
      BY <2>1, <2>2 DEF Cleanup
  <1>4. SupervisorTypeOK'
    BY <1>1, <1>3, LaunchFacts DEF SupervisorTypeOK
  <1>5. CallShape' /\ HandleShape'
    BY <1>1, <1>3 DEF CallShape, HandleShape
  <1>6. Numbered' /\ Budget'
    <2>1. Numbered'
      BY <1>1, <1>2 DEF Numbered
    <2>2. Budget'
      <3>1. /\ op = "start" => Spawned + MaxAttempts <= MaxSpawns + attempt + 1
            /\ op = "close" => Spawned + MaxAttempts <= MaxSpawns
        BY <1>1 DEF Budget
      <3>2. attempt \in Nat
        BY DEF SupervisorTypeOK
      <3>3. op' = "start" => pc' = "spawn" /\ Spawned + MaxAttempts <= MaxSpawns + attempt'
        <4>1. MaxAttempts \in Nat /\ MaxSpawns \in Nat /\ Spawned \in Nat
          BY <1>2, SupervisorAssumption
        <4>2. CASE op = "start" /\ op' = "start" /\ pc' = "spawn" /\ attempt' = attempt + 1
          BY <3>1, <3>2, <4>1, <4>2
        <4>3. CASE op = "close" /\ op' = "start" /\ pc' = "spawn" /\ attempt' = 0
          BY <3>1, <4>1, <4>3
        <4> QED
          BY <1>3, <4>2, <4>3
      <3>4. op' = "start" \/ op' = "none"
        BY <1>3
      <3> QED
        BY <1>2, <3>3, <3>4 DEF Budget
    <2> QED
      BY <2>1, <2>2
  <1>7. Generations' /\ OthersAreOld'
    <2>1. \A p \in Procs : GroupExists(p) => leader[p] # "unborn"
      BY DEF GroupExists, Numbered
    <2>2. op' = "start" => launch' # 0
      BY <1>3, LaunchFacts DEF new_launch, Generations, SupervisorTypeOK
    <2> QED
      BY <1>1, <1>3, <2>1, <2>2, LaunchFacts DEF Generations, OthersAreOld, GroupExists
  <1>8. ReadyShape' /\ SessionsAreCurrent'
    BY <1>3 DEF ReadyShape, SessionsAreCurrent
  <1> QED
    BY <1>4, <1>5, <1>6, <1>7, <1>8

\* The group that is held is killed with its supervisor and becomes an old one.
LEMMA ReplaceKeeps == SupervisorInv /\ Replace => SupervisorInv'
  <1> SUFFICES ASSUME SupervisorInv, Replace PROVE SupervisorInv'
    OBVIOUS
  <1> USE DEF SupervisorInv
  <1>1. /\ op = "none" /\ pc = "idle"
        /\ killed' = [p \in Procs |-> DropKills(p)]
        /\ leader' = [p \in Procs |-> IF p = child THEN "gone" ELSE leader[p]]
        /\ child' = 0 /\ pgid' = 0 /\ launch' = 0 /\ ready' = FALSE /\ sessions' = {}
        /\ result' = "none"
        /\ UNCHANGED <<op, pc, attempt, closing, launches, reg, served, kin, gen, socket>>
    BY DEF Replace, CallShape
  <1>2. /\ killed' \in [Procs -> BOOLEAN]
        /\ \A p \in Procs : killed[p] \/ p = pgid => killed'[p]
    <2>1. \A p \in Procs : DropKills(p) \in BOOLEAN
      BY DEF DropKills, SupervisorTypeOK
    <2>2. \A p \in Procs : killed'[p] = DropKills(p)
      BY <1>1
    <2> QED
      BY <1>1, <2>1, <2>2 DEF DropKills
  <1>3. /\ leader' \in [Procs -> {"unborn", "alive", "zombie", "gone"}]
        /\ \A p \in Procs : leader[p] # "unborn" <=> leader'[p] # "unborn"
        /\ \A p \in Procs : GroupExists(p)' => GroupExists(p)
    BY <1>1, NoProcessZero DEF SupervisorTypeOK, HandleShape, GroupExists
  <1>4. Spawned \in Nat /\ Spawned' = Spawned
    BY <1>3, SpawnedFacts, SameSpawned
  <1>5. SupervisorTypeOK'
    BY <1>1, <1>2, <1>3 DEF SupervisorTypeOK
  <1>6. CallShape' /\ HandleShape'
    BY <1>1 DEF CallShape, HandleShape
  <1>7. Numbered' /\ Budget'
    BY <1>1, <1>3, <1>4 DEF Numbered, Budget
  <1>8. Generations'
    BY <1>1, <1>3 DEF Generations, SupervisorTypeOK
  <1>9. OthersAreOld'
    <2>1. \A p \in Procs : GroupExists(p)' => gen'[p] # 0 /\ killed'[p]
      BY <1>1, <1>2, <1>3 DEF GroupExists, OthersAreOld, Numbered, Generations
    <2> QED
      BY <1>1, <2>1 DEF OthersAreOld
  <1>10. ReadyShape' /\ SessionsAreCurrent'
    BY <1>1 DEF ReadyShape, SessionsAreCurrent
  <1> QED
    BY <1>5, <1>6, <1>7, <1>8, <1>9, <1>10

----------------------------------------------------------------------------
(* The theorems.                                                           *)

\* The invariant holds at the start.
LEMMA InitHolds == Init => SupervisorInv
  <1> SUFFICES ASSUME Init PROVE SupervisorInv
    OBVIOUS
  <1> USE DEF Init
  <1>1. SupervisorTypeOK
    <2>1. attempt \in 0..(MaxAttempts - 1)
      BY SupervisorAssumption
    <2> QED
      BY <2>1 DEF SupervisorTypeOK
  <1>2. Spawned = 0
    <2>1. {p \in Procs : leader[p] # "unborn"} = {}
      OBVIOUS
    <2> QED
      BY <2>1, FS_EmptySet DEF Spawned
  <1>3. Numbered
    BY <1>2 DEF Numbered, Procs
  <1> QED
    BY <1>1, <1>3 DEF SupervisorInv, CallShape, HandleShape, Budget, Generations, OthersAreOld,
       GroupExists, ReadyShape, SessionsAreCurrent

\* Every step keeps the invariant.
LEMMA NextKeeps == SupervisorInv /\ [Next]_vars => SupervisorInv'
  <1> SUFFICES ASSUME SupervisorInv, [Next]_vars PROVE SupervisorInv'
    OBVIOUS
  <1>1. CASE StartCall
    BY <1>1, StartCallKeeps
  <1>2. CASE StartStep
    BY <1>2, NoSpawnKeeps, SpawnKeeps, ProbeAliveKeeps, ProbeChildGoneKeeps, ConnectFailsKeeps,
       ProbeAnswersKeeps, ProbeFailsKeeps DEF StartStep
  <1>3. CASE EndStep
    BY <1>3, NothingToKillKeeps, KillGroupKeeps, TermEndsKeeps, VanishedKeeps, KillFailsKeeps,
       CleanupKeeps, CleanupFailsKeeps, CloseAcknowledgedKeeps, CloseTimeoutKeeps DEF EndStep
  <1>4. CASE CloseCancelled \/ IsReady \/ ShutdownCall \/ Replace
    BY <1>4, CloseCancelledKeeps, IsReadyKeeps, ShutdownCallKeeps, ReplaceKeeps
  <1>5. CASE \E s \in Sessions : RegisterSession(s) \/ CloseCall(s)
    BY <1>5, RegisterSessionKeeps, CloseCallKeeps
  <1>6. CASE \E p \in Procs : LeaderExits(p) \/ Forks(p) \/ DescendantsExit(p) \/ Binds(p)
    BY <1>6, LeaderExitsKeeps, ForksKeeps, DescendantsExitKeeps, BindsKeeps
  <1>7. CASE UNCHANGED vars
    <2>1. Spawned' = Spawned
      BY <1>7 DEF Spawned, vars, processVars
    <2> QED
      BY <1>7, <2>1 DEF SupervisorInv, vars, callVars, supervisorVars, handles, processVars,
         SupervisorTypeOK, CallShape, HandleShape, Numbered, Budget, Generations, OthersAreOld,
         GroupExists, ReadyShape, SessionsAreCurrent
  <1> QED
    BY <1>1, <1>2, <1>3, <1>4, <1>5, <1>6, <1>7 DEF Next

\* The invariant holds in every state of the supervisor.
LEMMA SupervisorInvariant == Spec => []SupervisorInv
  BY InitHolds, NextKeeps, PTL DEF Spec

\* No process group is lost, however its leader, its descendants, the kill and the owner of
\* the supervisor end, and a ready supervisor was answered by the process it holds
\* (ProcessSidecarRuntime, wait_until_ready).
THEOREM GroupsAreOwned == Spec => []GroupIsOwned
  <1>1. SupervisorInv => GroupIsOwned
    BY DEF SupervisorInv, GroupIsOwned, OthersAreOld, ReadyShape
  <1> QED
    BY <1>1, SupervisorInvariant, PTL

\* Registered sessions belong to the generation that is ready (set_unready,
\* register_session).
THEOREM SessionsCurrent == Spec => []SessionsAreCurrent
  <1>1. SupervisorInv => SessionsAreCurrent
    BY DEF SupervisorInv
  <1> QED
    BY <1>1, SupervisorInvariant, PTL

\* A shutdown that returns Ok leaves no socket and no process that was not killed before
\* (shutdown_and_reap).
THEOREM ShutdownIsComplete == Spec => ShutdownLeavesNothing
  <1>1. SupervisorInv /\ [Next]_vars =>
          [(op = "shutdown" /\ op' = "none" /\ result' = "ok")
             => socket' = 0 /\ \A p \in Procs : GroupExists(p)' => killed[p]]_vars
    <2> SUFFICES ASSUME SupervisorInv, Next, op = "shutdown", op' = "none", result' = "ok"
                 PROVE  socket' = 0 /\ \A p \in Procs : GroupExists(p)' => killed[p]
      BY DEF vars
    <2>1. pc \in {"term", "vanish", "cleanup"}
      BY DEF SupervisorInv, CallShape
    <2>2. Cleanup
      BY <2>1 DEF Next, StartCall, StartStep, StartRefused, SpawnFails, Spawn, ProbeAlive,
         ProbeChildGone, ConnectFails, ProbeAnswers, ProbeFails, ProbeMayTimeOut, EndStep,
         NothingToKill, KillGroup, TermEnds, Vanished, KillFails, CleanupFails,
         CloseAcknowledged, CloseTimeout, CloseCancelled, IsReady, ShutdownCall, Replace,
         RegisterSession, CloseCall, LeaderExits, Forks, DescendantsExit, Binds, Returns,
         EnvUnchanged, callVars
    <2>3. socket' = 0 /\ pgid = 0 /\ UNCHANGED <<leader, kin>>
      BY <2>2 DEF Cleanup, SupervisorInv, HandleShape
    <2>4. \A p \in Procs : GroupExists(p)' => GroupExists(p) /\ p # pgid
      BY <2>3, SupervisorAssumption DEF GroupExists, Procs
    <2> QED
      BY <2>3, <2>4 DEF SupervisorInv, OthersAreOld
  <1> QED
    BY <1>1, SupervisorInvariant, PTL DEF Spec, ShutdownLeavesNothing
=============================================================================
