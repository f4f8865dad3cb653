-------------------------- MODULE AudioGraph_proofs --------------------------
(***************************************************************************)
(* Proofs about the virtual endpoints, for every set of module indices and  *)
(* generations and any number of disturbances: nothing is forgotten, there  *)
(* are no twins, and another program's module is never unloaded.            *)
(***************************************************************************)
EXTENDS AudioGraph, TLAPS

----------------------------------------------------------------------------
(* The inductive invariant.                                                *)

Modules == Ours \cup Foreign \cup {NoModule}
Labels == {"idle", "modules", "saveReconciled", "check", "unload", "pop", "recheck",
           "create", "load", "saveLoaded", "verify"}

Copies == Journals \cup {NoJournal}
Tasks == [pc : Labels, kind : {"none", "ensure", "cleanup", "command"}, own : Copies,
          rollback : BOOLEAN, raw : [Ids -> Modules], stale : BOOLEAN]

GraphTypeOK ==
    /\ server \in [Ids -> Modules]
    /\ journal \in Copies
    /\ daemon \in {"down", "up", "stopping"}
    /\ daemon = "up" => generation \in Generations
    /\ task \in Tasks

\* What a call has established by the label it has reached.
Shape ==
    /\ task.pc \notin {"idle", "create"} => task.own \in Journals
    /\ task.pc \in {"recheck", "create"} => task.kind = "ensure"
    /\ task.kind = "ensure" => daemon = "up"
    /\ task.rollback => task.pc \in {"check", "unload", "pop"}
    /\ task.pc \in {"unload", "pop"} => task.own.mods # Unowned
    /\ task.pc = "load" => \E r \in Roles : task.own.mods[r] = 0
    /\ task.pc = "create" => \A i \in Ids : server[i].gen = 0

\* The call's copy has the generation of the journal, except at the end of a clean-up that
\* has just removed the journal.
SameGeneration ==
    task.pc \notin {"idle", "recheck", "create"} =>
        \/ task.own.gen = journal.gen
        \/ task.pc = "check" /\ ~task.rollback /\ task.own.mods = Unowned

\* A copy that was read from the server, or written as the modules were loaded, names every
\* module of ours, but for the one just unloaded.  A rollback's copy may miss one.
CopyIsComplete ==
    ~task.rollback /\ task.pc \in {"saveReconciled", "check", "unload", "pop", "load",
                                   "saveLoaded", "verify"} =>
        /\ \A i \in Ids : server[i].gen # 0 => task.own.mods[server[i].role] = i
        /\ task.pc = "pop" => \A i \in Ids : i = LastId(task.own) => server[i].gen = 0

\* The module about to be unloaded is ours or gone, unless the server has restarted.
CheckedIsOurs ==
    task.pc = "unload" /\ ~task.stale =>
        \A i \in Ids : i = LastId(task.own) => server[i] = NoModule \/ server[i].gen # 0

GraphInv ==
    /\ GraphTypeOK /\ NothingForgotten /\ NoTwins
    /\ Shape /\ SameGeneration /\ CopyIsComplete /\ CheckedIsOurs

----------------------------------------------------------------------------
(* Roles, and the first and the last of them in a copy of the journal.     *)

\* The three roles, in order.
LEMMA RoleFacts ==
    /\ ORDER[1] \in Roles /\ ORDER[2] \in Roles /\ ORDER[3] \in Roles
    /\ \A r \in Roles : r = ORDER[1] \/ r = ORDER[2] \/ r = ORDER[3]
    /\ Unowned \in [Roles -> {0}]
  BY DEF ORDER, Roles, Unowned

\* The last module of a copy that names one: it has a role and an index.
LEMMA LastOfCopy ==
    ASSUME NEW own \in Journals, own.mods # Unowned
    PROVE  /\ LastRole(own) \in Roles /\ LastId(own) \in Ids
           /\ Popped(own) = [gen |-> own.gen,
                             mods |-> [own.mods EXCEPT ![LastRole(own)] = 0]]
           /\ Popped(own) \in Journals
  <1> DEFINE IsLast(k) == /\ own.mods[ORDER[k]] # 0
                          /\ \A n \in 1 .. 3 : n > k => own.mods[ORDER[n]] = 0
  <1>1. own.mods \in [Roles -> Ids \cup {0}] /\ own.gen \in Generations
    BY DEF Journals
  <1>2. PICK r \in Roles : own.mods[r] # 0
    BY <1>1 DEF Unowned
  <1>3. \E k \in 1 .. 3 : IsLast(k)
    <2>1. CASE own.mods[ORDER[3]] # 0
      <3>1. IsLast(3)
        BY <2>1
      <3> QED
        BY <3>1
    <2>2. CASE own.mods[ORDER[3]] = 0 /\ own.mods[ORDER[2]] # 0
      <3>1. IsLast(2)
        <4>1. \A n \in 1 .. 3 : n > 2 => n = 3
          OBVIOUS
        <4> QED
          BY <2>2, <4>1
      <3> QED
        BY <3>1
    <2>3. CASE own.mods[ORDER[3]] = 0 /\ own.mods[ORDER[2]] = 0
      <3>1. own.mods[ORDER[1]] # 0
        BY <2>3, <1>2, RoleFacts
      <3>2. \A n \in 1 .. 3 : n > 1 => n = 2 \/ n = 3
        OBVIOUS
      <3>3. IsLast(1)
        BY <2>3, <3>1, <3>2
      <3> QED
        BY <3>3
    <2> QED
      BY <2>1, <2>2, <2>3
  <1>4. PICK k \in 1 .. 3 : LastRole(own) = ORDER[k] /\ IsLast(k)
    BY <1>3 DEF LastRole
  <1>5. LastRole(own) \in Roles /\ own.mods[LastRole(own)] # 0
    <2>1. k = 1 \/ k = 2 \/ k = 3
      OBVIOUS
    <2> QED
      BY <1>4, <2>1, RoleFacts
  <1>6. Popped(own) = [gen |-> own.gen, mods |-> [own.mods EXCEPT ![LastRole(own)] = 0]]
    BY DEF Popped, Journals
  <1> QED
    BY <1>1, <1>5, <1>6 DEF LastId, Journals

\* The next endpoint of a copy that misses one.
LEMMA NextOfCopy ==
    ASSUME NEW own \in Journals, NEW r \in Roles, own.mods[r] = 0
    PROVE  NextRole(own) \in Roles /\ own.mods[NextRole(own)] = 0
  <1> DEFINE IsNext(k) == /\ own.mods[ORDER[k]] = 0
                          /\ \A n \in 1 .. 3 : n < k => own.mods[ORDER[n]] # 0
  <1>1. \E k \in 1 .. 3 : IsNext(k)
    <2>1. CASE own.mods[ORDER[1]] = 0
      <3>1. IsNext(1)
        BY <2>1
      <3> QED
        BY <3>1
    <2>2. CASE own.mods[ORDER[1]] # 0 /\ own.mods[ORDER[2]] = 0
      <3>1. \A n \in 1 .. 3 : n < 2 => n = 1
        OBVIOUS
      <3>2. IsNext(2)
        BY <2>2, <3>1
      <3> QED
        BY <3>2
    <2>3. CASE own.mods[ORDER[1]] # 0 /\ own.mods[ORDER[2]] # 0
      <3>1. own.mods[ORDER[3]] = 0
        BY <2>3, RoleFacts
      <3>2. \A n \in 1 .. 3 : n < 3 => n = 1 \/ n = 2
        OBVIOUS
      <3>3. IsNext(3)
        BY <2>3, <3>1, <3>2
      <3> QED
        BY <3>3
    <2> QED
      BY <2>1, <2>2, <2>3
  <1>2. PICK k \in 1 .. 3 : NextRole(own) = ORDER[k] /\ IsNext(k)
    BY <1>1 DEF NextRole
  <1>3. k = 1 \/ k = 2 \/ k = 3
    OBVIOUS
  <1> QED
    BY <1>2, <1>3, RoleFacts

\* Only a module of ours has a generation, and it has a role.
LEMMA OursHaveRoles ==
    ASSUME NEW m \in Modules, m.gen # 0
    PROVE  m.role \in Roles
  BY DEF Modules, Ours, Foreign, NoModule

\* The constants of the state have their types.
LEMMA EmptyTypes ==
    /\ NoModule \in Modules /\ NoModule.gen = 0
    /\ NoJournal \in Copies /\ NoJournal.gen = 0 /\ NoJournal.mods = Unowned
    /\ NoTask \in Tasks /\ NoTask.pc = "idle" /\ NoTask.kind = "none"
    /\ ~NoTask.rollback
    /\ \A own \in Journals : own \in Copies /\ own.gen \in Generations /\ own.gen # 0
  <1>1. NoModule \in Modules /\ NoModule.gen = 0
    BY DEF NoModule, Modules
  <1>2. NoJournal \in Copies /\ NoJournal.gen = 0 /\ NoJournal.mods = Unowned
    BY DEF NoJournal, Copies
  <1>3. NoTask \in Tasks /\ NoTask.pc = "idle" /\ NoTask.kind = "none" /\ ~NoTask.rollback
    BY <1>1, <1>2 DEF NoTask, Tasks, Labels
  <1>4. \A own \in Journals : own \in Copies /\ own.gen \in Generations /\ own.gen # 0
    BY GraphAssumption DEF Journals, Copies
  <1> QED
    BY <1>1, <1>2, <1>3, <1>4

\* A jump changes the label only.
LEMMA GotoFields ==
    ASSUME task \in Tasks, NEW label \in Labels
    PROVE  /\ Goto(label) \in Tasks
           /\ Goto(label).pc = label /\ Goto(label).kind = task.kind
           /\ Goto(label).own = task.own /\ Goto(label).rollback = task.rollback
           /\ Goto(label).stale = task.stale
  BY DEF Goto, Tasks

\* A rollback changes the label and the flag.
LEMMA RollbackFields ==
    ASSUME task \in Tasks
    PROVE  /\ Rollback \in Tasks
           /\ Rollback.pc = "check" /\ Rollback.kind = task.kind
           /\ Rollback.own = task.own /\ Rollback.rollback
  BY DEF Rollback, Tasks, Labels

\* A call that has returned owes nothing but the facts about server and journal.
LEMMA ReturnKeeps ==
    ASSUME task' = NoTask, server' \in [Ids -> Modules], journal' \in Copies,
           daemon' \in {"down", "up", "stopping"},
           daemon' = "up" => generation' \in Generations,
           NothingForgotten', NoTwins'
    PROVE  GraphInv'
  <1>1. GraphTypeOK'
    BY EmptyTypes DEF GraphTypeOK
  <1>2. Shape' /\ SameGeneration' /\ CopyIsComplete' /\ CheckedIsOurs'
    BY EmptyTypes DEF Shape, SameGeneration, CopyIsComplete, CheckedIsOurs
  <1> QED
    BY <1>1, <1>2 DEF GraphInv

\* A step that leaves the server alone and the journal's generation too.
LEMMA QuietKeeps ==
    ASSUME NothingForgotten, NoTwins, server' = server, journal'.gen = journal.gen
    PROVE  NothingForgotten' /\ NoTwins'
  BY DEF NothingForgotten, NoTwins

\* No command leaves the server's modules with more of ours than there were.
LEMMA FewerKeeps ==
    ASSUME NothingForgotten, NoTwins, journal'.gen = journal.gen,
           \A i \in Ids : server'[i].gen # 0 => server'[i] = server[i]
    PROVE  NothingForgotten' /\ NoTwins'
  <1>1. NothingForgotten'
    BY DEF NothingForgotten
  <1>2. NoTwins'
    BY DEF NoTwins
  <1> QED
    BY <1>1, <1>2

----------------------------------------------------------------------------
(* The calls.                                                              *)

\* ensure_endpoints begins with the journal as it is: without one, no module is ours.
LEMMA EnsureKeeps == GraphInv /\ ensure_endpoints => GraphInv'
  <1> SUFFICES ASSUME GraphInv, ensure_endpoints PROVE GraphInv'
    OBVIOUS
  <1>1. /\ server' = server /\ journal' = journal /\ daemon' = daemon
        /\ generation' = generation /\ daemon = "up"
    BY DEF ensure_endpoints
  <1>2. PICK label \in {"create", "modules"} :
           /\ Begin("ensure", label)
           /\ label = "create" => journal = NoJournal
           /\ label = "modules" => journal # NoJournal
    BY DEF ensure_endpoints
  <1>3. /\ task' \in Tasks /\ task'.pc = label /\ task'.kind = "ensure"
        /\ task'.own = journal /\ ~task'.rollback
    BY <1>2, EmptyTypes DEF Begin, inspect_raw, NoTask, Tasks, Labels, GraphInv, GraphTypeOK
  <1>4. NothingForgotten' /\ NoTwins'
    BY <1>1, QuietKeeps DEF GraphInv
  <1>5. GraphTypeOK'
    BY <1>1, <1>3 DEF GraphInv, GraphTypeOK
  <1>6. Shape'
    <2>1. label = "create" => \A i \in Ids : server[i].gen = 0
      BY <1>2, EmptyTypes DEF GraphInv, NothingForgotten
    <2>2. label = "modules" => journal \in Journals
      BY <1>2 DEF GraphInv, GraphTypeOK, Copies
    <2> QED
      BY <1>1, <1>3, <2>1, <2>2 DEF Shape
  <1>7. SameGeneration' /\ CopyIsComplete' /\ CheckedIsOurs'
    BY <1>1, <1>3 DEF SameGeneration, CopyIsComplete, CheckedIsOurs
  <1> QED
    BY <1>4, <1>5, <1>6, <1>7 DEF GraphInv

\* cleanup_owned begins with the journal as it is, whoever calls it.
LEMMA CleanupCallKeeps ==
    ASSUME GraphInv, NEW kind \in {"cleanup", "command"}, CleanupCall(kind),
           daemon' \in {"down", "up", "stopping"}, daemon' = "up" => daemon = "up"
    PROVE  GraphInv'
  <1>1. /\ server' = server /\ journal' = journal /\ generation' = generation
        /\ journal \in Journals
    BY DEF CleanupCall, GraphInv, GraphTypeOK, Copies
  <1>2. /\ task' \in Tasks /\ task'.pc = "modules" /\ task'.kind = kind
        /\ task'.own = journal /\ ~task'.rollback
    BY EmptyTypes
    DEF CleanupCall, Begin, inspect_raw, NoTask, Tasks, Labels, GraphInv, GraphTypeOK
  <1>3. NothingForgotten' /\ NoTwins'
    BY <1>1, QuietKeeps DEF GraphInv
  <1>4. GraphTypeOK'
    BY <1>1, <1>2 DEF GraphInv, GraphTypeOK
  <1>5. Shape' /\ SameGeneration' /\ CopyIsComplete' /\ CheckedIsOurs'
    BY <1>1, <1>2 DEF Shape, SameGeneration, CopyIsComplete, CheckedIsOurs
  <1> QED
    BY <1>3, <1>4, <1>5 DEF GraphInv

----------------------------------------------------------------------------
(* The steps of a call.                                                    *)

\* What a call does after it has reconciled: it returns, or goes on to clean up.
LEMMA AfterReconcileKeeps ==
    ASSUME GraphInv, NEW own \in Journals, task' = AfterReconcile(own),
           server' = server, daemon' = daemon, generation' = generation,
           journal' \in Copies, journal'.gen = journal.gen, own.gen = journal.gen,
           \A i \in Ids : server[i].gen # 0 => own.mods[server[i].role] = i,
           task.pc \in {"modules", "saveReconciled"}
    PROVE  GraphInv'
  <1>1. NothingForgotten' /\ NoTwins'
    BY QuietKeeps DEF GraphInv
  <1>2. CASE task' = NoTask
    BY <1>1, <1>2, ReturnKeeps DEF GraphInv, GraphTypeOK
  <1>3. CASE task' # NoTask
    <2>1. task' = [task EXCEPT !.own = own, !.pc = "check"]
      BY <1>3 DEF AfterReconcile
    <2>2. /\ task' \in Tasks /\ task'.pc = "check" /\ task'.kind = task.kind
          /\ task'.own = own /\ task'.rollback = task.rollback
      BY <2>1, EmptyTypes DEF GraphInv, GraphTypeOK, Labels, Tasks
    <2>3. GraphTypeOK'
      BY <2>2 DEF GraphInv, GraphTypeOK
    <2>4. Shape' /\ SameGeneration' /\ CopyIsComplete' /\ CheckedIsOurs'
      BY <2>2 DEF GraphInv, Shape, SameGeneration, CopyIsComplete, CheckedIsOurs
    <2> QED
      BY <1>1, <2>3, <2>4 DEF GraphInv
  <1> QED
    BY <1>2, <1>3

\* Reconciling finds every module of ours: they all carry the journal's generation, and
\* there is one for a role.
LEMMA ReconcileIsComplete ==
    ASSUME GraphInv, task.pc = "modules"
    PROVE  LET own == reconcile_ownership(task.own)
           IN  /\ own \in Journals /\ own.gen = task.own.gen /\ own.gen = journal.gen
               /\ \A i \in Ids : server[i].gen # 0 => own.mods[server[i].role] = i
  <1> DEFINE own == reconcile_ownership(task.own)
             gen == task.own.gen
  <1>1. task.own \in Journals /\ gen = journal.gen /\ gen \in Generations
    BY EmptyTypes DEF GraphInv, Shape, SameGeneration
  <1>2. \A r \in Roles : Matching(r, gen) \subseteq Ids
    BY DEF Matching
  <1>3. own \in Journals /\ own.gen = gen
    BY <1>1, <1>2 DEF reconcile_ownership, Journals
  <1>4. ASSUME NEW i \in Ids, server[i].gen # 0
        PROVE  own.mods[server[i].role] = i
    <2>1. server[i] \in Modules /\ server[i].gen = gen
      BY <1>1, <1>4 DEF GraphInv, GraphTypeOK, NothingForgotten
    <2>2. server[i].role \in Roles
      BY <1>4, <2>1, OursHaveRoles
    <2>3. \A j \in Matching(server[i].role, gen) : j = i
      BY <1>4, <2>1, <2>2 DEF GraphInv, NoTwins, Matching, module_matches
    <2>4. i \in Matching(server[i].role, gen)
      BY <1>4, <2>1, <2>2 DEF Matching, module_matches, Modules, Ours, Foreign, NoModule
    <2> QED
      BY <2>2, <2>3, <2>4 DEF reconcile_ownership
  <1> QED
    BY <1>1, <1>3, <1>4

\* Reading the modules gives a complete copy or ends the call.
LEMMA ReadModulesKeeps == GraphInv /\ ReadModules => GraphInv'
  <1> SUFFICES ASSUME GraphInv, ReadModules PROVE GraphInv'
    OBVIOUS
  <1> DEFINE own == reconcile_ownership(task.own)
  <1>1. /\ server' = server /\ journal' = journal /\ daemon' = daemon
        /\ generation' = generation /\ task.pc = "modules"
    BY DEF ReadModules, At
  <1>2. /\ own \in Journals /\ own.gen = journal.gen
        /\ \A i \in Ids : server[i].gen # 0 => own.mods[server[i].role] = i
    BY <1>1, ReconcileIsComplete
  <1>3. NothingForgotten' /\ NoTwins'
    BY <1>1, QuietKeeps DEF GraphInv
  <1>4. CASE task' = NoTask
    BY <1>1, <1>3, <1>4, ReturnKeeps DEF GraphInv, GraphTypeOK
  <1>5. CASE task' = AfterReconcile(own)
    BY <1>1, <1>2, <1>5, AfterReconcileKeeps DEF GraphInv, GraphTypeOK
  <1>6. CASE task' = [task EXCEPT !.own = own, !.pc = "saveReconciled"]
    <2>1. /\ task' \in Tasks /\ task'.pc = "saveReconciled" /\ task'.kind = task.kind
          /\ task'.own = own /\ task'.rollback = task.rollback
      BY <1>2, <1>6, EmptyTypes DEF GraphInv, GraphTypeOK, Labels, Tasks
    <2>2. GraphTypeOK'
      BY <1>1, <2>1 DEF GraphInv, GraphTypeOK
    <2>3. Shape' /\ SameGeneration' /\ CopyIsComplete' /\ CheckedIsOurs'
      BY <1>1, <1>2, <2>1 DEF GraphInv, Shape, SameGeneration, CopyIsComplete, CheckedIsOurs
    <2> QED
      BY <1>3, <2>2, <2>3 DEF GraphInv
  <1> QED
    BY <1>4, <1>5, <1>6 DEF ReadModules, Return

\* A reconciled copy has the generation it had in the journal.
LEMMA SaveReconciledKeeps == GraphInv /\ SaveReconciled => GraphInv'
  <1> SUFFICES ASSUME GraphInv, SaveReconciled PROVE GraphInv'
    OBVIOUS
  <1>1. /\ server' = server /\ daemon' = daemon /\ generation' = generation
        /\ task.pc = "saveReconciled" /\ journal' \in {journal, task.own}
    BY DEF SaveReconciled, At, Save, SaveFails
  <1>2. task.own \in Journals /\ task.own.gen = journal.gen
    BY <1>1 DEF GraphInv, Shape, SameGeneration
  <1>3. journal' \in Copies /\ journal'.gen = journal.gen
    BY <1>1, <1>2, EmptyTypes DEF GraphInv, GraphTypeOK
  <1>4. CASE task' = NoTask
    BY <1>1, <1>3, <1>4, QuietKeeps, ReturnKeeps DEF GraphInv, GraphTypeOK
  <1>5. CASE task' = AfterReconcile(task.own)
    <2>1. \A i \in Ids : server[i].gen # 0 => task.own.mods[server[i].role] = i
      BY <1>1 DEF GraphInv, Shape, CopyIsComplete
    <2> QED
      BY <1>1, <1>2, <1>3, <1>5, <2>1, AfterReconcileKeeps
  <1> QED
    BY <1>4, <1>5 DEF SaveReconciled, Return

\* The call's copy at the labels of a clean-up or a rollback.
LEMMA CleaningFacts ==
    ASSUME GraphInv, task.pc \in {"check", "unload", "pop"}, task.own.mods # Unowned
    PROVE  /\ task.own \in Journals /\ task.own \in Copies /\ task.own.gen = journal.gen
           /\ task.own.gen # 0 /\ LastRole(task.own) \in Roles /\ LastId(task.own) \in Ids
  <1>1. task.own \in Journals /\ task.own.gen = journal.gen
    BY DEF GraphInv, Shape, SameGeneration
  <1> QED
    BY <1>1, LastOfCopy, EmptyTypes

\* An error ends the call; the server has at most lost a module.
LEMMA GiveUpKeeps ==
    ASSUME GraphInv, task.pc \in {"check", "unload"}, task.own.mods # Unowned, GiveUp,
           server' \in [Ids -> Modules], daemon' = daemon, generation' = generation,
           \A i \in Ids : server'[i].gen # 0 => server'[i] = server[i]
    PROVE  GraphInv'
  <1>1. task' = NoTask /\ journal' \in {journal, task.own}
    BY DEF GiveUp, Return
  <1>2. journal' \in Copies /\ journal'.gen = journal.gen
    BY <1>1, CleaningFacts DEF GraphInv, GraphTypeOK
  <1>3. NothingForgotten' /\ NoTwins'
    BY <1>2, FewerKeeps DEF GraphInv
  <1> QED
    BY <1>1, <1>2, <1>3, ReturnKeeps DEF GraphInv, GraphTypeOK

\* The check lets only a module of the copy's generation be unloaded.
LEMMA CheckLastKeeps == GraphInv /\ CheckLast => GraphInv'
  <1> SUFFICES ASSUME GraphInv, CheckLast PROVE GraphInv'
    OBVIOUS
  <1> DEFINE module == server[LastId(task.own)]
  <1>1. /\ server' = server /\ daemon' = daemon /\ generation' = generation
        /\ task.pc = "check" /\ task.own.mods # Unowned
    BY DEF CheckLast, At
  <1>2. /\ task.own \in Journals /\ task.own.gen = journal.gen /\ task.own.gen # 0
        /\ LastId(task.own) \in Ids
    BY <1>1, CleaningFacts
  <1>3. task \in Tasks
    BY DEF GraphInv, GraphTypeOK
  <1>4. CASE /\ module_matches(LastRole(task.own), module, task.own.gen)
             /\ task' = [Goto("unload") EXCEPT !.stale = FALSE] /\ journal' = journal
    <2>1. /\ task' \in Tasks /\ task'.pc = "unload" /\ task'.kind = task.kind
          /\ task'.own = task.own /\ task'.rollback = task.rollback
      BY <1>3, <1>4 DEF Goto, Tasks, Labels
    <2>2. NothingForgotten' /\ NoTwins'
      BY <1>1, <1>4, QuietKeeps DEF GraphInv
    <2>3. GraphTypeOK'
      BY <1>1, <1>4, <2>1 DEF GraphInv, GraphTypeOK
    <2>4. Shape' /\ SameGeneration' /\ CopyIsComplete'
      BY <1>1, <1>2, <1>4, <2>1 DEF GraphInv, Shape, SameGeneration, CopyIsComplete
    <2>5. module.gen # 0
      BY <1>2, <1>4 DEF module_matches
    <2>6. CheckedIsOurs'
      BY <1>1, <2>1, <2>5 DEF CheckedIsOurs
    <2> QED
      BY <2>2, <2>3, <2>4, <2>6 DEF GraphInv
  <1>5. CASE module = NoModule /\ task' = Goto("pop") /\ journal' = journal
    <2>1. /\ task' \in Tasks /\ task'.pc = "pop" /\ task'.kind = task.kind
          /\ task'.own = task.own /\ task'.rollback = task.rollback
      BY <1>3, <1>5, GotoFields DEF Labels
    <2>2. NothingForgotten' /\ NoTwins'
      BY <1>1, <1>5, QuietKeeps DEF GraphInv
    <2>3. GraphTypeOK'
      BY <1>1, <1>5, <2>1 DEF GraphInv, GraphTypeOK
    <2>4. Shape' /\ SameGeneration' /\ CheckedIsOurs'
      BY <1>1, <1>2, <1>5, <2>1 DEF GraphInv, Shape, SameGeneration, CheckedIsOurs
    <2>5. CopyIsComplete'
      BY <1>1, <1>5, <2>1, EmptyTypes DEF GraphInv, CopyIsComplete
    <2> QED
      BY <2>2, <2>3, <2>4, <2>5 DEF GraphInv
  <1>6. CASE GiveUp
    BY <1>1, <1>6, GiveUpKeeps DEF GraphInv, GraphTypeOK
  <1>7. CASE Return /\ journal' = journal
    BY <1>1, <1>7, QuietKeeps, ReturnKeeps DEF Return, GraphInv, GraphTypeOK
  <1> QED
    BY <1>4, <1>5, <1>6, <1>7 DEF CheckLast

\* An unload takes one module away, and the copy still names the others.
LEMMA UnloadKeeps == GraphInv /\ Unload => GraphInv'
  <1> SUFFICES ASSUME GraphInv, Unload PROVE GraphInv'
    OBVIOUS
  <1>1. /\ daemon' = daemon /\ generation' = generation /\ task.pc = "unload"
        /\ task.own.mods # Unowned
    BY DEF Unload, At, GraphInv, Shape
  <1>2. LastId(task.own) \in Ids /\ task.own \in Journals /\ task.own.gen = journal.gen
    BY <1>1, CleaningFacts
  <1>3. server \in [Ids -> Modules] /\ task \in Tasks
    BY DEF GraphInv, GraphTypeOK
  <1>4. /\ server' \in [Ids -> Modules]
        /\ \A i \in Ids : server'[i].gen # 0 => server'[i] = server[i]
    BY <1>2, <1>3, EmptyTypes DEF Unload
  <1>5. CASE GiveUp
    BY <1>1, <1>4, <1>5, GiveUpKeeps
  <1>6. CASE /\ server' = [server EXCEPT ![LastId(task.own)] = NoModule]
             /\ task' = Goto("pop") /\ journal' = journal
    <2>1. /\ task' \in Tasks /\ task'.pc = "pop" /\ task'.kind = task.kind
          /\ task'.own = task.own /\ task'.rollback = task.rollback
      BY <1>3, <1>6, GotoFields DEF Labels
    <2>2. NothingForgotten' /\ NoTwins'
      BY <1>4, <1>6, FewerKeeps DEF GraphInv
    <2>3. GraphTypeOK'
      BY <1>1, <1>4, <1>6, <2>1 DEF GraphInv, GraphTypeOK
    <2>4. Shape' /\ SameGeneration' /\ CheckedIsOurs'
      BY <1>1, <1>2, <1>6, <2>1 DEF GraphInv, Shape, SameGeneration, CheckedIsOurs
    <2>5. server'[LastId(task.own)].gen = 0
      BY <1>2, <1>3, <1>6, EmptyTypes
    <2>6. CopyIsComplete'
      BY <1>1, <1>4, <2>1, <2>5 DEF GraphInv, CopyIsComplete
    <2> QED
      BY <2>2, <2>3, <2>4, <2>6 DEF GraphInv
  <1> QED
    BY <1>5, <1>6 DEF Unload

\* The journal is removed only when no module of ours is left.
LEMMA PopKeeps == GraphInv /\ Pop => GraphInv'
  <1> SUFFICES ASSUME GraphInv, Pop PROVE GraphInv'
    OBVIOUS
  <1> DEFINE own == Popped(task.own)
             next == [Goto("check") EXCEPT !.own = own]
  <1>1. /\ server' = server /\ daemon' = daemon /\ generation' = generation
        /\ task.pc = "pop" /\ task.own.mods # Unowned
    BY DEF Pop, At, GraphInv, Shape
  <1>2. /\ task.own \in Journals /\ task.own.gen = journal.gen
        /\ LastRole(task.own) \in Roles /\ LastId(task.own) \in Ids
    BY <1>1, CleaningFacts
  <1>3. /\ own = [gen |-> task.own.gen, mods |-> [task.own.mods EXCEPT ![LastRole(task.own)] = 0]]
        /\ own \in Journals
    BY <1>1, <1>2, LastOfCopy
  <1>4. own.gen = journal.gen /\ own \in Copies
    BY <1>2, <1>3, EmptyTypes
  <1>5. /\ server \in [Ids -> Modules] /\ task \in Tasks /\ journal \in Copies
        /\ daemon \in {"down", "up", "stopping"}
        /\ daemon = "up" => generation \in Generations
    BY DEF GraphInv, GraphTypeOK
  <1>6. ~task.rollback => \A i \in Ids : server[i].gen # 0 => own.mods[server[i].role] = i
    <2> SUFFICES ASSUME ~task.rollback, NEW i \in Ids, server[i].gen # 0
                 PROVE  own.mods[server[i].role] = i
      OBVIOUS
    <2>1. server[i].role \in Roles
      BY <1>5, OursHaveRoles
    <2>2. task.own.mods[server[i].role] = i /\ i # LastId(task.own)
      BY <1>1 DEF GraphInv, CopyIsComplete
    <2>3. server[i].role # LastRole(task.own)
      BY <2>2 DEF LastId
    <2>4. task.own.mods \in [Roles -> Ids \cup {0}]
      BY <1>2 DEF Journals
    <2> QED
      BY <1>3, <2>1, <2>2, <2>3, <2>4
  <1>7. ~task.rollback /\ own.mods = Unowned => \A i \in Ids : server[i].gen = 0
    <2> SUFFICES ASSUME ~task.rollback, own.mods = Unowned, NEW i \in Ids, server[i].gen # 0
                 PROVE  FALSE
      OBVIOUS
    <2>1. server[i].role \in Roles
      BY <1>5, OursHaveRoles
    <2> QED
      BY <1>6, <2>1, GraphAssumption DEF Unowned
  <1>8. /\ NothingForgotten' /\ NoTwins' /\ journal' \in Copies
        /\ task' = next => \/ own.gen = journal'.gen
                           \/ ~task.rollback /\ own.mods = Unowned
    <2>1. CASE journal' \in {journal, own}
      <3>1. journal'.gen = journal.gen /\ journal' \in Copies
        BY <1>4, <1>5, <2>1
      <3> QED
        BY <1>1, <1>4, <3>1, QuietKeeps DEF GraphInv
    <2>2. CASE own.mods = Unowned /\ ~task.rollback /\ journal' = NoJournal
      <3>1. NothingForgotten'
        BY <1>1, <1>7, <2>2 DEF NothingForgotten
      <3>2. NoTwins'
        BY <1>1 DEF GraphInv, NoTwins
      <3> QED
        BY <2>2, <3>1, <3>2, EmptyTypes
    <2> QED
      BY <2>1, <2>2 DEF Pop, Remove, RemoveFails, Save, SaveFails
  <1>9. CASE task' = NoTask
    BY <1>1, <1>5, <1>8, <1>9, ReturnKeeps
  <1>10. CASE task' = next
    <2>1. /\ task' \in Tasks /\ task'.pc = "check" /\ task'.kind = task.kind
          /\ task'.own = own /\ task'.rollback = task.rollback
      BY <1>4, <1>5, <1>10 DEF Goto, Tasks, Labels
    <2>2. GraphTypeOK'
      BY <1>1, <1>5, <1>8, <2>1 DEF GraphTypeOK
    <2>3. Shape' /\ SameGeneration' /\ CheckedIsOurs'
      BY <1>1, <1>3, <1>8, <1>10, <2>1 DEF GraphInv, Shape, SameGeneration, CheckedIsOurs
    <2>4. CopyIsComplete'
      BY <1>1, <1>6, <2>1 DEF CopyIsComplete
    <2> QED
      BY <1>8, <2>2, <2>3, <2>4 DEF GraphInv
  <1> QED
    BY <1>9, <1>10 DEF Pop, Return

\* A clean-up whose copy is empty has left nothing; a rollback keeps the journal.
LEMMA CheckEmptyKeeps == GraphInv /\ CheckEmpty => GraphInv'
  <1> SUFFICES ASSUME GraphInv, CheckEmpty PROVE GraphInv'
    OBVIOUS
  <1>1. /\ server' = server /\ daemon' = daemon /\ generation' = generation
        /\ task.pc = "check" /\ task.own.mods = Unowned
    BY DEF CheckEmpty, At
  <1>2. /\ server \in [Ids -> Modules] /\ task \in Tasks /\ journal \in Copies
        /\ daemon \in {"down", "up", "stopping"}
        /\ daemon = "up" => generation \in Generations
    BY DEF GraphInv, GraphTypeOK
  <1>3. task.own \in Journals /\ task.own \in Copies
    BY <1>1, EmptyTypes DEF GraphInv, Shape
  <1>4. CASE task.rollback
    <2>1. task' = NoTask /\ journal' \in {journal, task.own}
      BY <1>4 DEF CheckEmpty, Save, SaveFails, Return
    <2>2. journal' \in Copies /\ journal'.gen = journal.gen
      BY <1>1, <1>2, <1>3, <1>4, <2>1 DEF GraphInv, SameGeneration
    <2> QED
      BY <1>1, <1>2, <2>1, <2>2, QuietKeeps, ReturnKeeps DEF GraphInv
  <1>5. CASE ~task.rollback
    <2>1. \A i \in Ids : server[i].gen = 0
      <3> SUFFICES ASSUME NEW i \in Ids, server[i].gen # 0 PROVE FALSE
        OBVIOUS
      <3>1. server[i].role \in Roles
        BY <1>2, OursHaveRoles
      <3>2. task.own.mods[server[i].role] = i
        BY <1>1, <1>5 DEF GraphInv, CopyIsComplete
      <3> QED
        BY <1>1, <3>1, <3>2, GraphAssumption DEF Unowned
    <2>2. journal' \in {journal, NoJournal} /\ journal' \in Copies
      BY <1>2, <1>5, EmptyTypes DEF CheckEmpty, Remove, RemoveFails
    <2>3. NothingForgotten' /\ NoTwins'
      BY <1>1, <2>1 DEF GraphInv, NothingForgotten, NoTwins
    <2>4. CASE task' = NoTask
      BY <1>1, <1>2, <2>2, <2>3, <2>4, ReturnKeeps
    <2>5. CASE task.kind = "ensure" /\ task' = Goto("recheck")
      <3>1. /\ task' \in Tasks /\ task'.pc = "recheck" /\ task'.kind = task.kind
            /\ task'.own = task.own /\ task'.rollback = task.rollback
        BY <1>2, <2>5, GotoFields DEF Labels
      <3>2. GraphTypeOK'
        BY <1>1, <1>2, <2>2, <3>1 DEF GraphTypeOK
      <3>3. Shape' /\ SameGeneration' /\ CopyIsComplete' /\ CheckedIsOurs'
        BY <1>1, <1>3, <1>5, <2>5, <3>1
        DEF GraphInv, Shape, SameGeneration, CopyIsComplete, CheckedIsOurs
      <3> QED
        BY <2>3, <3>2, <3>3 DEF GraphInv
    <2> QED
      BY <1>5, <2>4, <2>5 DEF CheckEmpty, Return
  <1> QED
    BY <1>4, <1>5, <1>2 DEF Tasks

\* New endpoints are made only where there are none.
LEMMA RecheckKeeps == GraphInv /\ Recheck => GraphInv'
  <1> SUFFICES ASSUME GraphInv, Recheck PROVE GraphInv'
    OBVIOUS
  <1>1. /\ server' = server /\ daemon' = daemon /\ generation' = generation
        /\ journal' = journal /\ task.pc = "recheck" /\ ~task.rollback
    BY DEF Recheck, At, GraphInv, Shape
  <1>2. NothingForgotten' /\ NoTwins'
    BY <1>1, QuietKeeps DEF GraphInv
  <1>3. CASE task' = NoTask
    BY <1>1, <1>2, <1>3, ReturnKeeps DEF GraphInv, GraphTypeOK
  <1>4. CASE ~has_any_required_endpoint(server) /\ task' = Goto("create")
    <2>1. /\ task' \in Tasks /\ task'.pc = "create" /\ task'.kind = task.kind
          /\ task'.own = task.own /\ task'.rollback = task.rollback
      BY <1>4, GotoFields DEF GraphInv, GraphTypeOK, Labels
    <2>2. \A i \in Ids : server[i].gen = 0
      <3> SUFFICES ASSUME NEW i \in Ids, server[i].gen # 0 PROVE FALSE
        OBVIOUS
      <3>1. server[i].role \in Roles
        BY OursHaveRoles DEF GraphInv, GraphTypeOK
      <3> QED
        BY <1>4, <3>1 DEF has_any_required_endpoint, endpoints_for
    <2>3. GraphTypeOK'
      BY <1>1, <2>1 DEF GraphInv, GraphTypeOK
    <2>4. Shape' /\ SameGeneration' /\ CopyIsComplete' /\ CheckedIsOurs'
      BY <1>1, <2>1, <2>2 DEF GraphInv, Shape, SameGeneration, CopyIsComplete, CheckedIsOurs
    <2> QED
      BY <1>2, <2>3, <2>4 DEF GraphInv
  <1> QED
    BY <1>3, <1>4 DEF Recheck, Return, inspect_raw

\* The new generation is journaled while no module of ours exists.
LEMMA CreateJournalKeeps == GraphInv /\ CreateJournal => GraphInv'
  <1> SUFFICES ASSUME GraphInv, CreateJournal PROVE GraphInv'
    OBVIOUS
  <1> DEFINE own == [gen |-> generation, mods |-> Unowned]
  <1>1. /\ server' = server /\ daemon' = daemon /\ generation' = generation
        /\ task.pc = "create" /\ task.kind = "ensure" /\ daemon = "up" /\ ~task.rollback
        /\ \A i \in Ids : server[i].gen = 0
    BY DEF CreateJournal, At, GraphInv, Shape
  <1>2. own \in Journals /\ own.mods = Unowned
    BY <1>1 DEF GraphInv, GraphTypeOK, Journals, Unowned
  <1>3. own \in Copies /\ journal' \in {journal, own} /\ journal' \in Copies
    BY <1>2, EmptyTypes DEF CreateJournal, Save, SaveFails, GraphInv, GraphTypeOK
  <1>4. NothingForgotten' /\ NoTwins'
    BY <1>1 DEF GraphInv, NothingForgotten, NoTwins
  <1>5. CASE task' = NoTask
    BY <1>1, <1>3, <1>4, <1>5, ReturnKeeps DEF GraphInv, GraphTypeOK
  <1>6. CASE journal' = own /\ task' = [Goto("load") EXCEPT !.own = own]
    <2>1. /\ task' \in Tasks /\ task'.pc = "load" /\ task'.kind = task.kind
          /\ task'.own = own /\ task'.rollback = task.rollback
      BY <1>3, <1>6 DEF Goto, Tasks, Labels, GraphInv, GraphTypeOK
    <2>2. GraphTypeOK'
      BY <1>1, <1>3, <2>1 DEF GraphInv, GraphTypeOK
    <2>3. \E r \in Roles : own.mods[r] = 0
      BY <1>2 DEF Unowned, Roles
    <2>4. Shape'
      BY <1>1, <1>2, <2>1, <2>3 DEF Shape
    <2>5. SameGeneration' /\ CopyIsComplete' /\ CheckedIsOurs'
      BY <1>1, <1>6, <2>1 DEF SameGeneration, CopyIsComplete, CheckedIsOurs
    <2> QED
      BY <1>4, <2>2, <2>4, <2>5 DEF GraphInv
  <1> QED
    BY <1>5, <1>6 DEF CreateJournal, Save, Return

\* A rollback begins with the generation of the journal.
LEMMA RollbackKeeps ==
    ASSUME GraphInv, task' = Rollback, task.own \in Journals, task.own.gen = journal'.gen,
           journal' \in Copies, server' \in [Ids -> Modules], daemon' = daemon,
           generation' = generation, task.pc \in {"load", "saveLoaded", "verify"},
           NothingForgotten', NoTwins'
    PROVE  GraphInv'
  <1>1. /\ task' \in Tasks /\ task'.pc = "check" /\ task'.kind = task.kind
        /\ task'.own = task.own /\ task'.rollback
    BY RollbackFields DEF GraphInv, GraphTypeOK
  <1>2. GraphTypeOK'
    BY <1>1 DEF GraphInv, GraphTypeOK
  <1>3. Shape' /\ SameGeneration' /\ CopyIsComplete' /\ CheckedIsOurs'
    BY <1>1 DEF GraphInv, Shape, SameGeneration, CopyIsComplete, CheckedIsOurs
  <1> QED
    BY <1>2, <1>3 DEF GraphInv

\* A loaded module carries the journal's generation and a role the copy did not have.
LEMMA LoadKeeps == GraphInv /\ Load => GraphInv'
  <1> SUFFICES ASSUME GraphInv, Load PROVE GraphInv'
    OBVIOUS
  <1> DEFINE r == NextRole(task.own)
             i == CHOOSE i \in FreshIds : TRUE
             module == [role |-> r, gen |-> task.own.gen]
             next == [Goto("saveLoaded") EXCEPT !.own.mods[r] = i]
  <1>1. /\ journal' = journal /\ daemon' = daemon /\ generation' = generation
        /\ task.pc = "load" /\ ~task.rollback
    BY DEF Load, At, GraphInv, Shape
  <1>2. /\ server \in [Ids -> Modules] /\ task \in Tasks /\ journal \in Copies
        /\ daemon \in {"down", "up", "stopping"}
        /\ daemon = "up" => generation \in Generations
    BY DEF GraphInv, GraphTypeOK
  <1>3. /\ task.own \in Journals /\ task.own.gen = journal.gen
        /\ task.own.mods \in [Roles -> Ids \cup {0}] /\ task.own.gen \in Generations
    BY <1>1 DEF GraphInv, Shape, SameGeneration, Journals
  <1>4. r \in Roles /\ task.own.mods[r] = 0
    BY <1>1, <1>3, NextOfCopy DEF GraphInv, Shape
  <1>5. \A j \in Ids : server[j].gen # 0 =>
            /\ task.own.mods[server[j].role] = j /\ server[j].role \in Roles
            /\ server[j].role # r
    <2> SUFFICES ASSUME NEW j \in Ids, server[j].gen # 0
                 PROVE  /\ task.own.mods[server[j].role] = j /\ server[j].role \in Roles
                        /\ server[j].role # r
      OBVIOUS
    <2>1. task.own.mods[server[j].role] = j /\ server[j].role \in Roles
      BY <1>1, <1>2, OursHaveRoles DEF GraphInv, CopyIsComplete
    <2> QED
      BY <1>4, <2>1, GraphAssumption
  <1>6. CASE server' = server /\ task' = Rollback
    BY <1>1, <1>2, <1>3, <1>6, QuietKeeps, RollbackKeeps DEF GraphInv
  <1>7. CASE /\ FreshIds # {} /\ server' = [server EXCEPT ![i] = module]
             /\ task' \in {next, Rollback}
    <2>1. i \in FreshIds
      BY <1>7
    <2>2. i \in Ids
      BY <2>1 DEF FreshIds
    <2>3. module \in Modules /\ module.gen = journal.gen /\ module.role = r
      BY <1>3, <1>4 DEF Modules, Ours
    <2>4. /\ server' \in [Ids -> Modules] /\ server'[i] = module
          /\ \A j \in Ids : j # i => server'[j] = server[j]
      BY <1>2, <1>7, <2>2, <2>3
    <2>5. NothingForgotten'
      BY <1>1, <2>3, <2>4 DEF GraphInv, NothingForgotten
    <2>6. NoTwins'
      <3> SUFFICES ASSUME NEW q \in Roles, NEW j \in Ids, NEW k \in Ids,
                          server'[j].role = q, server'[k].role = q,
                          server'[j].gen # 0, server'[k].gen # 0
                   PROVE  j = k
        BY DEF NoTwins
      <3>1. CASE j # i /\ k # i
        BY <2>4, <3>1 DEF GraphInv, NoTwins
      <3>2. CASE j = i \/ k = i
        <4>1. server'[i].role = r
          BY <2>3, <2>4
        <4> HIDE DEF i, r, module
        <4>2. ASSUME NEW n \in Ids, n # i, server'[n].gen # 0
              PROVE  server'[n].role # r
          BY <1>5, <2>4, <4>2
        <4> QED
          BY <2>2, <3>2, <4>1, <4>2
      <3> QED
        BY <3>1, <3>2
    <2>7. CASE task' = Rollback
      BY <1>1, <1>2, <1>3, <2>4, <2>5, <2>6, <2>7, RollbackKeeps
    <2>8. CASE task' = next
      <3> DEFINE own == [task.own EXCEPT !.mods = [task.own.mods EXCEPT ![r] = i]]
      <3>1. own \in Journals /\ own.gen = task.own.gen
            /\ own.mods = [task.own.mods EXCEPT ![r] = i]
        BY <1>3, <1>4, <2>2 DEF Journals
      <3>2. own \in Copies
        BY <3>1, EmptyTypes
      <3>3. next = [Goto("saveLoaded") EXCEPT !.own = own]
        BY <1>2, <1>3 DEF Goto, Tasks
      <3>4. /\ task' \in Tasks /\ task'.pc = "saveLoaded" /\ task'.kind = task.kind
            /\ task'.own = own /\ task'.rollback = task.rollback
        BY <1>2, <2>8, <3>2, <3>3 DEF Goto, Tasks, Labels
      <3>5. GraphTypeOK'
        BY <1>1, <1>2, <2>4, <3>4 DEF GraphTypeOK
      <3>6. Shape' /\ SameGeneration' /\ CheckedIsOurs'
        BY <1>1, <1>3, <3>1, <3>4 DEF GraphInv, Shape, SameGeneration, CheckedIsOurs
      <3>7. \A j \in Ids : server'[j].gen # 0 => own.mods[server'[j].role] = j
        <4>1. server'[i].role = r
          BY <2>3, <2>4
        <4> HIDE DEF i, r, module, own
        <4> SUFFICES ASSUME NEW j \in Ids, server'[j].gen # 0
                     PROVE  own.mods[server'[j].role] = j
          OBVIOUS
        <4>2. CASE j = i
          BY <1>3, <1>4, <3>1, <4>1, <4>2
        <4>3. CASE j # i
          BY <1>3, <1>5, <2>4, <3>1, <4>3
        <4> QED
          BY <4>2, <4>3
      <3>8. CopyIsComplete'
        BY <3>4, <3>7 DEF CopyIsComplete
      <3> QED
        BY <2>5, <2>6, <3>5, <3>6, <3>8 DEF GraphInv
    <2> QED
      BY <1>7, <2>7, <2>8
  <1> QED
    BY <1>6, <1>7 DEF Load

\* The copy with the new module replaces the journal, or is rolled back.
LEMMA SaveLoadedKeeps == GraphInv /\ SaveLoaded => GraphInv'
  <1> SUFFICES ASSUME GraphInv, SaveLoaded PROVE GraphInv'
    OBVIOUS
  <1>1. /\ server' = server /\ daemon' = daemon /\ generation' = generation
        /\ task.pc = "saveLoaded" /\ ~task.rollback /\ journal' \in {journal, task.own}
    BY DEF SaveLoaded, At, Save, SaveFails, GraphInv, Shape
  <1>2. task.own \in Journals /\ task.own \in Copies /\ task.own.gen = journal.gen
    BY <1>1, EmptyTypes DEF GraphInv, Shape, SameGeneration
  <1>3. /\ server \in [Ids -> Modules] /\ task \in Tasks
        /\ journal' \in Copies /\ journal'.gen = journal.gen
    BY <1>1, <1>2 DEF GraphInv, GraphTypeOK
  <1>4. NothingForgotten' /\ NoTwins'
    BY <1>1, <1>3, QuietKeeps DEF GraphInv
  <1>5. CASE task' = Rollback
    BY <1>1, <1>2, <1>3, <1>4, <1>5, RollbackKeeps
  <1>6. CASE task' # Rollback
    <2>1. PICK label \in {"verify", "load"} :
             /\ task' = Goto(label)
             /\ label = "load" => \E r \in Roles : task.own.mods[r] = 0
      BY <1>6 DEF SaveLoaded
    <2>2. /\ task' \in Tasks /\ task'.pc = label /\ task'.kind = task.kind
          /\ task'.own = task.own /\ task'.rollback = task.rollback
      BY <1>3, <2>1, GotoFields DEF Labels
    <2>3. GraphTypeOK'
      BY <1>1, <1>3, <2>2 DEF GraphInv, GraphTypeOK
    <2>4. Shape'
      BY <1>1, <1>2, <2>1, <2>2 DEF GraphInv, Shape
    <2>5. SameGeneration' /\ CopyIsComplete' /\ CheckedIsOurs'
      BY <1>1, <1>2, <1>3, <2>2 DEF GraphInv, SameGeneration, CopyIsComplete, CheckedIsOurs
    <2> QED
      BY <1>4, <2>3, <2>4, <2>5 DEF GraphInv
  <1> QED
    BY <1>5, <1>6

\* A graph that is not as made is rolled back.
LEMMA VerifyKeeps == GraphInv /\ Verify => GraphInv'
  <1> SUFFICES ASSUME GraphInv, Verify PROVE GraphInv'
    OBVIOUS
  <1>1. /\ server' = server /\ daemon' = daemon /\ generation' = generation
        /\ journal' = journal /\ task.pc = "verify" /\ ~task.rollback
    BY DEF Verify, At, GraphInv, Shape
  <1>2. task.own \in Journals /\ task.own.gen = journal.gen
    BY <1>1 DEF GraphInv, Shape, SameGeneration
  <1>3. NothingForgotten' /\ NoTwins'
    BY <1>1, QuietKeeps DEF GraphInv
  <1>4. CASE task' = NoTask
    BY <1>1, <1>3, <1>4, ReturnKeeps DEF GraphInv, GraphTypeOK
  <1>5. CASE task' = Rollback
    BY <1>1, <1>2, <1>3, <1>5, RollbackKeeps DEF GraphInv, GraphTypeOK
  <1> QED
    BY <1>4, <1>5 DEF Verify, Return

----------------------------------------------------------------------------
(* Processes, the sound server and other programs.                         *)

\* Processes start and end; a call ends with its process.
LEMMA ProcessKeeps ==
    GraphInv /\ (Start \/ Exit \/ Crash \/ CommandDies) => GraphInv'
  <1> SUFFICES ASSUME GraphInv, Start \/ Exit \/ Crash \/ CommandDies PROVE GraphInv'
    OBVIOUS
  <1>1. /\ server' = server /\ journal' = journal
        /\ daemon' \in {"down", "up", "stopping"}
        /\ daemon' = "up" => generation' \in Generations
    BY DEF Start, Exit, Crash, CommandDies, GraphInv, GraphTypeOK
  <1>2. NothingForgotten' /\ NoTwins'
    BY <1>1, QuietKeeps DEF GraphInv
  <1>3. CASE task' = NoTask
    BY <1>1, <1>2, <1>3, ReturnKeeps DEF GraphInv, GraphTypeOK
  <1>4. CASE task' = task
    <2>1. task.kind = "ensure" => daemon' = "up" \/ task' = NoTask
      BY DEF Start, Exit, Crash, CommandDies, Return, GraphInv, Shape
    <2>2. CASE task' = NoTask
      BY <1>3, <2>2
    <2>3. CASE task' # NoTask
      <3>1. GraphTypeOK'
        BY <1>1, <1>4 DEF GraphInv, GraphTypeOK
      <3>2. Shape'
        BY <1>1, <1>4, <2>1, <2>3 DEF GraphInv, Shape
      <3>3. SameGeneration' /\ CopyIsComplete' /\ CheckedIsOurs'
        BY <1>1, <1>4 DEF GraphInv, SameGeneration, CopyIsComplete, CheckedIsOurs
      <3> QED
        BY <1>2, <3>1, <3>2, <3>3 DEF GraphInv
    <2> QED
      BY <2>2, <2>3
  <1> QED
    BY <1>3, <1>4 DEF Start, Exit, Crash, CommandDies, Return

\* Nobody else brings a module of ours.
LEMMA OthersKeep ==
    ASSUME GraphInv, journal' = journal, daemon' = daemon, generation' = generation,
           server' \in [Ids -> Modules],
           \A i \in Ids : server'[i].gen # 0 => server'[i] = server[i],
           task' \in Tasks, task'.pc = task.pc, task'.kind = task.kind,
           task'.own = task.own, task'.rollback = task.rollback, CheckedIsOurs'
    PROVE  GraphInv'
  <1>1. NothingForgotten' /\ NoTwins'
    BY FewerKeeps DEF GraphInv
  <1>2. GraphTypeOK'
    BY DEF GraphInv, GraphTypeOK
  <1>3. Shape' /\ SameGeneration'
    BY DEF GraphInv, Shape, SameGeneration
  <1>4. CopyIsComplete'
    BY DEF GraphInv, CopyIsComplete
  <1> QED
    BY <1>1, <1>2, <1>3, <1>4 DEF GraphInv

\* Modules are lost, others appear, and the server restarts.
LEMMA EnvironmentKeeps == GraphInv /\ GraphEnvironment => GraphInv'
  <1> SUFFICES ASSUME GraphInv, GraphEnvironment PROVE GraphInv'
    OBVIOUS
  <1>1. server \in [Ids -> Modules] /\ task \in Tasks
    BY DEF GraphInv, GraphTypeOK
  <1>2. ASSUME NEW m \in Foreign PROVE m \in Modules /\ m.gen = 0
    BY <1>2 DEF Modules, Foreign
  <1>3. ASSUME NEW i \in Ids, ModuleLost(i) PROVE GraphInv'
    <2>1. /\ journal' = journal /\ daemon' = daemon /\ generation' = generation
          /\ task' = task /\ server' = [server EXCEPT ![i] = NoModule]
      BY <1>3 DEF ModuleLost
    <2>2. /\ server' \in [Ids -> Modules]
          /\ \A j \in Ids : server'[j] = NoModule \/ server'[j] = server[j]
      BY <1>1, <2>1, EmptyTypes
    <2>3. CheckedIsOurs'
      BY <2>1, <2>2 DEF GraphInv, CheckedIsOurs
    <2> QED
      BY <1>1, <2>1, <2>2, <2>3, EmptyTypes, OthersKeep
  <1>4. ASSUME NEW i \in Ids, NEW m \in Foreign, ForeignLoads(i, m) PROVE GraphInv'
    <2>1. /\ journal' = journal /\ daemon' = daemon /\ generation' = generation
          /\ task' = task /\ server' = [server EXCEPT ![i] = m]
          /\ \A r \in Roles : i # task.own.mods[r]
      BY <1>4 DEF ForeignLoads, FreshIds, Remembered
    <2>2. /\ server' \in [Ids -> Modules]
          /\ \A j \in Ids : server'[j].gen # 0 => server'[j] = server[j]
          /\ \A j \in Ids : j # i => server'[j] = server[j]
      BY <1>1, <1>2, <2>1
    <2>3. task.pc = "unload" => i # LastId(task.own)
      BY <2>1, CleaningFacts DEF GraphInv, Shape, LastId
    <2>4. CheckedIsOurs'
      BY <2>1, <2>2, <2>3 DEF GraphInv, CheckedIsOurs
    <2> QED
      BY <1>1, <2>1, <2>2, <2>4, OthersKeep
  <1>5. ASSUME ServerRestarts PROVE GraphInv'
    <2>1. /\ journal' = journal /\ daemon' = daemon /\ generation' = generation
      BY <1>5 DEF ServerRestarts
    <2>2. /\ server' \in [Ids -> Modules]
          /\ \A j \in Ids : server'[j].gen = 0
      BY <1>2, <1>5, EmptyTypes DEF ServerRestarts
    <2>3. /\ task' \in Tasks /\ task'.pc = task.pc /\ task'.kind = task.kind
          /\ task'.own = task.own /\ task'.rollback = task.rollback
          /\ task'.stale \/ task'.pc = "idle"
      BY <1>1, <1>5, EmptyTypes DEF ServerRestarts, Idle, Tasks
    <2>4. CheckedIsOurs'
      BY <2>3 DEF CheckedIsOurs
    <2> QED
      BY <2>1, <2>2, <2>3, <2>4, OthersKeep
  <1> QED
    BY <1>3, <1>4, <1>5 DEF GraphEnvironment

----------------------------------------------------------------------------
(* The theorems.                                                           *)

\* The invariant holds before the first daemon starts.
LEMMA InitHolds == GraphInit => GraphInv
  <1> SUFFICES ASSUME GraphInit PROVE GraphInv
    OBVIOUS
  <1>1. /\ server = [i \in Ids |-> NoModule] /\ journal = NoJournal /\ daemon = "down"
        /\ task = NoTask
    BY DEF GraphInit
  <1>2. GraphTypeOK
    BY <1>1, EmptyTypes DEF GraphTypeOK
  <1>3. NothingForgotten /\ NoTwins
    BY <1>1, EmptyTypes DEF NothingForgotten, NoTwins
  <1>4. Shape /\ SameGeneration /\ CopyIsComplete /\ CheckedIsOurs
    BY <1>1, EmptyTypes DEF Shape, SameGeneration, CopyIsComplete, CheckedIsOurs
  <1> QED
    BY <1>2, <1>3, <1>4 DEF GraphInv

\* A step that changes nothing.
LEMMA StutterKeeps == GraphInv /\ UNCHANGED graphVars => GraphInv'
  <1> SUFFICES ASSUME GraphInv, UNCHANGED graphVars PROVE GraphInv'
    OBVIOUS
  <1>1. /\ server' = server /\ journal' = journal /\ daemon' = daemon
        /\ generation' = generation /\ task' = task
    BY DEF graphVars
  <1> QED
    BY <1>1 DEF GraphInv, GraphTypeOK, NothingForgotten, NoTwins, Shape, SameGeneration,
                CopyIsComplete, CheckedIsOurs

\* Every step of a call, of a process and of the environment preserves the invariant.
LEMMA StepKeeps == GraphInv /\ [GraphNext]_graphVars => GraphInv'
  <1> SUFFICES ASSUME GraphInv, [GraphNext]_graphVars PROVE GraphInv'
    OBVIOUS
  <1>1. CASE ensure_endpoints
    BY <1>1, EnsureKeeps
  <1>2. CASE cleanup_owned
    BY <1>2, CleanupCallKeeps DEF cleanup_owned
  <1>3. CASE CleanupCommand
    BY <1>3, CleanupCallKeeps DEF CleanupCommand, GraphInv, GraphTypeOK
  <1>4. CASE Steps
    BY <1>4, ReadModulesKeeps, SaveReconciledKeeps, CheckLastKeeps, UnloadKeeps, PopKeeps,
       CheckEmptyKeeps, RecheckKeeps, CreateJournalKeeps, LoadKeeps, SaveLoadedKeeps,
       VerifyKeeps DEF Steps
  <1>5. CASE Start \/ Exit \/ Crash \/ CommandDies
    BY <1>5, ProcessKeeps
  <1>6. CASE GraphEnvironment
    BY <1>6, EnvironmentKeeps
  <1>7. CASE UNCHANGED graphVars
    BY <1>7, StutterKeeps
  <1> QED
    BY <1>1, <1>2, <1>3, <1>4, <1>5, <1>6, <1>7 DEF GraphNext

\* The variables keep their types and the calls what their labels say.
THEOREM GraphInvariance == GraphSpec => []GraphInv
  BY InitHolds, StepKeeps, PTL DEF GraphSpec

\* However often processes die, commands time out and writes fail, every module that a
\* process of ours has loaded carries the generation of the journal: reconcile_ownership
\* can find it.
THEOREM GraphRemembers == GraphSpec => []NothingForgotten
  <1>1. GraphInv => NothingForgotten
    BY DEF GraphInv
  <1> QED
    BY <1>1, GraphInvariance, PTL

\* load_endpoint never makes a second module for an endpoint, whatever the number of module
\* indices, generations and disturbances.
THEOREM GraphHasNoTwins == GraphSpec => []NoTwins
  <1>1. GraphInv => NoTwins
    BY DEF GraphInv
  <1> QED
    BY <1>1, GraphInvariance, PTL

\* unload_module takes another program's module only when the server restarted after
\* the check.
THEOREM GraphSparesOthers == GraphSpec => ForeignIsSafe
  <1> DEFINE Safe == At("unload") /\ task'.pc # "unload" /\ ~task.stale =>
                         \A i \in Ids : server[i].gen = 0 => server'[i] = server[i]
  <1>1. GraphInv /\ [GraphNext]_graphVars => [Safe]_graphVars
    <2> SUFFICES ASSUME GraphInv, GraphNext, task.pc = "unload", task'.pc # "unload",
                        ~task.stale, NEW i \in Ids, server[i].gen = 0
                 PROVE  server'[i] = server[i]
      BY DEF At
    <2>1. CASE Unload
      <3>1. LastId(task.own) \in Ids /\ server \in [Ids -> Modules]
        BY CleaningFacts DEF GraphInv, Shape, GraphTypeOK
      <3>2. \/ server' = server
            \/ /\ server[LastId(task.own)] # NoModule
               /\ server' = [server EXCEPT ![LastId(task.own)] = NoModule]
        BY <2>1 DEF Unload
      <3>3. i = LastId(task.own) => server[i] = NoModule
        BY DEF GraphInv, CheckedIsOurs
      <3> QED
        BY <3>1, <3>2, <3>3
    <2>2. CASE server' = server
      BY <2>2
    <2>3. CASE task' = task
      BY <2>3
    <2>4. CASE ServerRestarts
      <3>1. task'.pc = task.pc
        BY <2>4 DEF ServerRestarts, GraphInv, GraphTypeOK, Tasks
      <3> QED
        BY <3>1
    <2>5. Unload \/ server' = server \/ task' = task \/ ServerRestarts
      <3>1. ~Load
        BY DEF Load, At
      <3>2. CASE Steps
        BY <3>1, <3>2 DEF Steps, ReadModules, SaveReconciled, CheckLast, Pop, CheckEmpty,
                          Recheck, CreateJournal, SaveLoaded, Verify
      <3>3. CASE GraphEnvironment
        BY <3>3 DEF GraphEnvironment, ModuleLost, ForeignLoads
      <3> QED
        BY <3>2, <3>3 DEF GraphNext, ensure_endpoints, cleanup_owned, CleanupCommand,
                          CleanupCall, Start, Exit, Crash, CommandDies
    <2> QED
      BY <2>1, <2>2, <2>3, <2>4, <2>5
  <1>2. GraphSpec => [][Safe]_graphVars
    BY <1>1, GraphInvariance, PTL DEF GraphSpec
  <1> QED
    BY <1>2 DEF ForeignIsSafe
====
