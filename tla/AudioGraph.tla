----------------------------- MODULE AudioGraph -----------------------------
(***************************************************************************)
(* The virtual endpoints: PulseAudioGraph (pulse.rs) with its ownership    *)
(* journal (journal.rs), as the daemon's watcher loop, its shutdown and    *)
(* the command line's clean-up call it.                                    *)
(*                                                                         *)
(* The journal is written BEFORE the modules it will name are loaded: it   *)
(* holds the generation that every module of this process carries in its   *)
(* arguments, so that a module whose load was cut off by a crash or by a   *)
(* timeout can still be found.  Every pactl command and every write of the *)
(* journal is a step of its own.  The file lock on the journal makes whole *)
(* calls of two processes exclude one another: `task' is the lock's holder.*)
(***************************************************************************)
EXTENDS Naturals, Sequences, FiniteSets

CONSTANTS
    Ids,               \* module indices of the sound server
    Generations,       \* the generations (UUIDs) processes choose from
    MaxDisturbances    \* failed commands, foreign and lost modules, bounds the model

ASSUME GraphAssumption ==
    /\ 0 \notin Ids /\ IsFiniteSet(Ids)
    /\ Generations \subseteq Nat \ {0}
    /\ MaxDisturbances \in Nat

\* EndpointRole::ORDER.
ORDER == <<"mic_out", "virtual_mic", "remote_in">>
Roles == {"mic_out", "virtual_mic", "remote_in"}

NoModule == [role |-> "none", gen |-> 0]
\* Modules somebody else loads: under the name of an endpoint of ours, or unrelated.
Foreign == [role : Roles \cup {"other"}, gen : {0}]
Ours == [role : Roles, gen : Generations]

\* OwnershipJournal: for each role the module, or 0; it is always sorted by role.
Unowned == [r \in Roles |-> 0]
NoJournal == [gen |-> 0, mods |-> Unowned]
Journals == [gen : Generations, mods : [Roles -> Ids \cup {0}]]

VARIABLES
    server,        \* Ids -> the loaded module
    journal,       \* the journal file
    daemon,        \* "down", "up" or "stopping"
    generation,    \* PulseAudioGraph.next_generation of the running daemon
    task,          \* the call that holds the journal's lock
    disturbances   \* how many there have been

graphVars == <<server, journal, daemon, generation, task, disturbances>>

\* The call: "ensure", "cleanup" (shutdown) or "command" (another process cleans up); its
\* copy of the journal, whether it rolls back what it created, the endpoints as read, and
\* (history) whether the server has restarted since the modules were last checked.
NoTask == [pc |-> "idle", kind |-> "none", own |-> NoJournal, rollback |-> FALSE,
           raw |-> [i \in Ids |-> NoModule], stale |-> FALSE]

Idle == task = NoTask
At(label) == task.pc = label
Goto(label) == [task EXCEPT !.pc = label]
Return == task' = NoTask

\* A command fails, or something else disturbs the graph.
Disturb == disturbances < MaxDisturbances /\ disturbances' = disturbances + 1
Calm == UNCHANGED disturbances

----------------------------------------------------------------------------
(* Reading the server.                                                     *)

\* inspect_raw: the sinks and sources the server lists, by the module that owns them.
inspect_raw == server

endpoints_for(raw, r) == {i \in Ids : raw[i].role = r}
has_any_required_endpoint(raw) == \E r \in Roles : endpoints_for(raw, r) # {}
has_duplicate_required_endpoint(raw) == \E r \in Roles : Cardinality(endpoints_for(raw, r)) > 1

module_matches(r, module, gen) == module = [role |-> r, gen |-> gen]

journal_matches_graph(raw, own) ==
    \A r \in Roles : own.mods[r] # 0 /\ endpoints_for(raw, r) = {own.mods[r]}

\* The modules that carry the generation, whether or not the journal names them.
Matching(r, gen) == {i \in Ids : module_matches(r, server[i], gen)}

\* Mutant: a module that the journal names and the server has lost is an error.
ReconcileFailsOnLoss(raw, own) ==
    \E r \in Roles : own.mods[r] # 0 /\ ~module_matches(r, server[own.mods[r]], own.gen)

\* reconcile_ownership refuses: an index of the journal is another module now, there are two
\* modules for a role, or an endpoint of ours belongs to somebody else.  (module_claimed_role
\* also refuses a module that carries the generation with other arguments: only this code
\* writes the generation, and with the arguments of the role, so no module of the model does.)
ReconcileFails(raw, own) ==
    \/ \E r \in Roles : /\ own.mods[r] # 0 /\ server[own.mods[r]] # NoModule
                        /\ ~module_matches(r, server[own.mods[r]], own.gen)
    \/ \E r \in Roles : Cardinality(Matching(r, own.gen)) > 1
    \/ \E r \in Roles : \E i \in endpoints_for(raw, r) : ~module_matches(r, server[i], own.gen)

reconcile_ownership(own) ==
    [gen |-> own.gen,
     mods |-> [r \in Roles |-> IF Matching(r, own.gen) = {} THEN 0
                               ELSE CHOOSE i \in Matching(r, own.gen) : TRUE]]

\* state_from: the health that goes with what was read.
health(raw, own) ==
    IF journal_matches_graph(raw, own) THEN "Ready" ELSE "Degraded"

\* inspect() succeeds and reports the graph Ready.
InspectReady ==
    /\ journal # NoJournal
    /\ ~has_duplicate_required_endpoint(inspect_raw)
    /\ ~ReconcileFails(inspect_raw, journal)
    /\ health(inspect_raw, reconcile_ownership(journal)) = "Ready"

----------------------------------------------------------------------------
(* The calls: lock, load the journal, read the endpoints.                  *)

Begin(kind, label) ==
    task' = [NoTask EXCEPT !.kind = kind, !.pc = label, !.own = journal, !.raw = inspect_raw]

\* ensure_endpoints, from maintain_audio_graph once a second, when inspect() is not Ready or
\* fails, and from initialize.
ensure_endpoints ==
    /\ daemon = "up" /\ Idle
    /\ (~InspectReady /\ Calm) \/ Disturb
    /\ ~has_duplicate_required_endpoint(server)
    /\ IF journal = NoJournal
       THEN ~has_any_required_endpoint(server) /\ Begin("ensure", "create")
       ELSE Begin("ensure", "modules")
    /\ UNCHANGED <<server, journal, daemon, generation>>

\* cleanup_owned, at the end of the shutdown or from --audio-graph-cleanup.
CleanupCall(kind) ==
    /\ Idle
    /\ journal # NoJournal /\ ~has_duplicate_required_endpoint(server)
    /\ Begin(kind, "modules")
    /\ UNCHANGED <<server, journal, generation>>

cleanup_owned ==
    /\ daemon = "up" /\ daemon' = "stopping"
    /\ CleanupCall("cleanup") /\ Calm

CleanupCommand == CleanupCall("command") /\ Disturb /\ UNCHANGED daemon

----------------------------------------------------------------------------
(* The steps of a call.  Save: the journal is replaced by a rename, and an   *)
(* error may be reported before or after it.                                 *)

Save(j) == journal' = j /\ Calm
SaveFails(j) == Disturb /\ journal' \in {journal, j}
Remove == journal' = NoJournal /\ Calm
RemoveFails == Disturb /\ UNCHANGED journal

AfterReconcile(own) ==
    IF task.kind = "ensure" /\ journal_matches_graph(task.raw, own) THEN NoTask
    ELSE [task EXCEPT !.own = own, !.pc = "check"]

ReadModules ==
    /\ At("modules")
    /\ LET own == reconcile_ownership(task.own)
       IN  \/ ReconcileFails(task.raw, task.own) /\ Return /\ Calm
           \/ Disturb /\ Return
           \/ /\ ~ReconcileFails(task.raw, task.own) /\ Calm
              /\ task' = IF own = task.own THEN AfterReconcile(own)
                         ELSE [task EXCEPT !.own = own, !.pc = "saveReconciled"]
    /\ UNCHANGED <<server, journal, daemon, generation>>

SaveReconciled ==
    /\ At("saveReconciled")
    /\ \/ Save(task.own) /\ task' = AfterReconcile(task.own)
       \/ SaveFails(task.own) /\ Return
    /\ UNCHANGED <<server, daemon, generation>>

\* The last module of the copy, in ORDER.
LastRole(own) == ORDER[CHOOSE k \in 1 .. 3 : /\ own.mods[ORDER[k]] # 0
                                             /\ \A n \in 1 .. 3 : n > k => own.mods[ORDER[n]] = 0]
LastId(own) == own.mods[LastRole(own)]
Popped(own) == [own EXCEPT !.mods[LastRole(own)] = 0]

\* An error ends the call; a rollback saves its copy first.
GiveUp ==
    /\ Return
    /\ IF task.rollback THEN journal' \in {journal, task.own} ELSE UNCHANGED journal

\* cleanup_reconciled and rollback_new_modules read the modules again before each unload.
\* Mutant: the module of the journal's index is unloaded whatever it is.
CheckLastUnchecked ==
    /\ At("check") /\ task.own.mods # Unowned
    /\ task' = [Goto(IF server[LastId(task.own)] = NoModule THEN "pop" ELSE "unload")
                   EXCEPT !.stale = FALSE]
    /\ Calm /\ UNCHANGED <<server, journal, daemon, generation>>

CheckLast ==
    /\ At("check") /\ task.own.mods # Unowned
    /\ LET module == server[LastId(task.own)]
       IN  \/ /\ module_matches(LastRole(task.own), module, task.own.gen) /\ Calm
              /\ task' = [Goto("unload") EXCEPT !.stale = FALSE] /\ UNCHANGED journal
           \/ module = NoModule /\ Calm /\ task' = Goto("pop") /\ UNCHANGED journal
           \/ /\ module # NoModule /\ ~module_matches(LastRole(task.own), module, task.own.gen)
              /\ Calm /\ GiveUp
           \/ Disturb /\ Return /\ UNCHANGED journal
    /\ UNCHANGED <<server, daemon, generation>>

\* unload_module: done; refused; or timed out after the server had done it.
Unload ==
    /\ At("unload")
    /\ \/ /\ server[LastId(task.own)] # NoModule
          /\ server' = [server EXCEPT ![LastId(task.own)] = NoModule]
          /\ (Calm /\ task' = Goto("pop") /\ UNCHANGED journal) \/ (Disturb /\ GiveUp)
       \/ /\ server[LastId(task.own)] # NoModule => Disturb
          /\ server[LastId(task.own)] = NoModule => Calm
          /\ GiveUp /\ UNCHANGED server
    /\ UNCHANGED <<daemon, generation>>

Pop ==
    /\ At("pop")
    /\ LET own == Popped(task.own)
       IN  IF own.mods = Unowned /\ ~task.rollback
           THEN \/ Remove /\ task' = [Goto("check") EXCEPT !.own = own]
                \/ RemoveFails /\ Return
           ELSE \/ Save(own) /\ task' = [Goto("check") EXCEPT !.own = own]
                \/ SaveFails(own) /\ Return
    /\ UNCHANGED <<server, daemon, generation>>

\* Mutant: a rollback removes the journal, as a clean-up does.
CheckEmptyRemoving ==
    /\ At("check") /\ task.own.mods = Unowned
    /\ Remove
    /\ task' = IF task.kind = "ensure" /\ ~task.rollback THEN Goto("recheck") ELSE NoTask
    /\ UNCHANGED <<server, daemon, generation>>

\* The end of a clean-up removes the journal, the end of a rollback keeps it, empty.
CheckEmpty ==
    /\ At("check") /\ task.own.mods = Unowned
    /\ IF task.rollback
       THEN (Save(task.own) \/ SaveFails(task.own)) /\ Return
       ELSE \/ Remove /\ task' = IF task.kind = "ensure" THEN Goto("recheck") ELSE NoTask
            \/ RemoveFails /\ Return
    /\ UNCHANGED <<server, daemon, generation>>

Recheck ==
    /\ At("recheck")
    /\ \/ has_any_required_endpoint(inspect_raw) /\ Calm /\ Return
       \/ ~has_any_required_endpoint(inspect_raw) /\ Calm /\ task' = Goto("create")
       \/ Disturb /\ Return
    /\ UNCHANGED <<server, journal, daemon, generation>>

\* create_endpoints: the empty journal with the new generation, then the modules in ORDER.
CreateJournal ==
    /\ At("create")
    /\ LET own == [gen |-> generation, mods |-> Unowned]
       IN  \/ Save(own) /\ task' = [Goto("load") EXCEPT !.own = own]
           \/ SaveFails(own) /\ Return
    /\ UNCHANGED <<server, daemon, generation>>

NextRole(own) == ORDER[CHOOSE k \in 1 .. 3 : /\ own.mods[ORDER[k]] = 0
                                             /\ \A n \in 1 .. 3 : n < k => own.mods[ORDER[n]] # 0]

\* The server counts its modules up: a new one gets an index that nobody remembers.
Remembered == {journal.mods[r] : r \in Roles} \cup {task.own.mods[r] : r \in Roles}
FreshIds == {i \in Ids : server[i] = NoModule /\ i \notin Remembered}

Rollback == [task EXCEPT !.pc = "check", !.rollback = TRUE]

\* load_endpoint: the remapped microphone needs its master.
LoadPossible(r) == r = "virtual_mic" => \E i \in Ids : server[i].role = "mic_out"

\* Mutant: a load that timed out is tried again.
LoadRetried ==
    /\ At("load")
    /\ LET r == NextRole(task.own)
       IN  \/ /\ LoadPossible(r)
              /\ LET i == CHOOSE i \in FreshIds : TRUE
                 IN  /\ FreshIds # {}
                     /\ server' = [server EXCEPT ![i] = [role |-> r, gen |-> task.own.gen]]
                     /\ \/ Calm /\ task' = [Goto("saveLoaded") EXCEPT !.own.mods[r] = i]
                        \/ Disturb /\ UNCHANGED task
           \/ /\ LoadPossible(r) => Disturb
              /\ ~LoadPossible(r) => Calm
              /\ task' = Rollback /\ UNCHANGED server
    /\ UNCHANGED <<journal, daemon, generation>>

Load ==
    /\ At("load")
    /\ LET r == NextRole(task.own)
       IN  \/ /\ LoadPossible(r)
              /\ LET i == CHOOSE i \in FreshIds : TRUE
                 IN  /\ FreshIds # {}
                     /\ server' = [server EXCEPT ![i] = [role |-> r, gen |-> task.own.gen]]
                     /\ \/ Calm /\ task' = [Goto("saveLoaded") EXCEPT !.own.mods[r] = i]
                        \/ Disturb /\ task' = Rollback
           \/ /\ LoadPossible(r) => Disturb
              /\ ~LoadPossible(r) => Calm
              /\ task' = Rollback /\ UNCHANGED server
    /\ UNCHANGED <<journal, daemon, generation>>

SaveLoaded ==
    /\ At("saveLoaded")
    /\ \/ /\ Save(task.own)
          /\ task' = Goto(IF \A r \in Roles : task.own.mods[r] # 0 THEN "verify" ELSE "load")
       \/ SaveFails(task.own) /\ task' = Rollback
    /\ UNCHANGED <<server, daemon, generation>>

Verify ==
    /\ At("verify")
    /\ \/ journal_matches_graph(inspect_raw, task.own) /\ Calm /\ Return
       \/ ~journal_matches_graph(inspect_raw, task.own) /\ Calm /\ task' = Rollback
       \/ Disturb /\ task' = Rollback
    /\ UNCHANGED <<server, journal, daemon, generation>>

Steps ==
    \/ ReadModules \/ SaveReconciled \/ CheckLast \/ Unload \/ Pop \/ CheckEmpty
    \/ Recheck \/ CreateJournal \/ Load \/ SaveLoaded \/ Verify

----------------------------------------------------------------------------
(* Processes, the sound server and other programs.                         *)

\* PulseAudioGraph::new: a new UUID.
Start ==
    /\ daemon = "down"
    /\ daemon' = "up"
    /\ \E g \in Generations :
          g # journal.gen /\ (\A i \in Ids : server[i].gen # g) /\ generation' = g
    /\ UNCHANGED <<server, journal, task, disturbances>>

Exit ==
    /\ daemon = "stopping" /\ task.kind # "cleanup"
    /\ daemon' = "down" /\ generation' = 0
    /\ UNCHANGED <<server, journal, task, disturbances>>

\* The daemon is killed; the lock goes with it unless the other process holds it.
Crash ==
    /\ daemon # "down"
    /\ daemon' = "down" /\ generation' = 0
    /\ task' = IF task.kind = "command" THEN task ELSE NoTask
    /\ UNCHANGED <<server, journal, disturbances>>

CommandDies ==
    /\ task.kind = "command" /\ Return
    /\ UNCHANGED <<server, journal, daemon, generation, disturbances>>

ModuleLost(i) ==
    /\ server[i] # NoModule
    /\ server' = [server EXCEPT ![i] = NoModule]
    /\ IF server[i].gen = 0 THEN Calm ELSE Disturb
    /\ UNCHANGED <<journal, daemon, generation, task>>

ForeignLoads(i, m) ==
    /\ i \in FreshIds /\ Disturb
    /\ server' = [server EXCEPT ![i] = m]
    /\ UNCHANGED <<journal, daemon, generation, task>>

\* The sound server restarts: no module of ours is left, its indices start again, and
\* another program may be given one that the journal still names.
ServerRestarts ==
    /\ Disturb
    /\ \/ server' = [i \in Ids |-> NoModule]
       \/ \E j \in Ids, m \in Foreign :
             server' = [i \in Ids |-> IF i = j THEN m ELSE NoModule]
    /\ task' = IF Idle THEN task ELSE [task EXCEPT !.stale = TRUE]
    /\ UNCHANGED <<journal, daemon, generation>>

GraphEnvironment ==
    \/ \E i \in Ids : ModuleLost(i) \/ \E m \in Foreign : ForeignLoads(i, m)
    \/ ServerRestarts

GraphInit ==
    /\ server = [i \in Ids |-> NoModule]
    /\ journal = NoJournal
    /\ daemon = "down" /\ generation = 0
    /\ task = NoTask
    /\ disturbances = 0

GraphNext ==
    \/ ensure_endpoints \/ cleanup_owned \/ CleanupCommand
    \/ Steps
    \/ Start \/ Exit \/ Crash \/ CommandDies
    \/ GraphEnvironment

GraphSpec == GraphInit /\ [][GraphNext]_graphVars

\* The watcher loop maintains the graph every second, and a call goes on to its end.
GraphFairSpec == GraphSpec /\ SF_graphVars(ensure_endpoints) /\ WF_graphVars(Steps)

----------------------------------------------------------------------------
(* Properties.                                                             *)

\* No virtual device is ever forgotten: wherever a process died, a command timed out or a
\* write failed, a module one of our processes loaded carries the generation the journal holds.
NothingForgotten == \A i \in Ids : server[i].gen # 0 => journal.gen = server[i].gen

\* There are never two modules of ours for one endpoint, although a load that timed out may
\* have succeeded.
NoTwins == \A r \in Roles, i, j \in Ids :
    server[i].role = r /\ server[j].role = r /\ server[i].gen # 0 /\ server[j].gen # 0 => i = j

\* A call never unloads another program's module, also when the journal's index was given to
\* it; only a restart of the server between the check and the unload is beyond the code.
ForeignIsSafe ==
    [][At("unload") /\ task'.pc # "unload" /\ ~task.stale =>
          \A i \in Ids : server[i].gen = 0 => server'[i] = server[i]]_graphVars

\* The graph heals: once nothing disturbs it and no other program's module stands in the way,
\* a daemon that stays up has its three endpoints for good.
SelfHeals ==
    <>[](daemon = "up" /\ \A i \in Ids : server[i] # NoModule => server[i].gen # 0)
        => <>[]InspectReady
====
