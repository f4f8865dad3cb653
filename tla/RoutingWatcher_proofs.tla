------------------------ MODULE RoutingWatcher_proofs ------------------------
(***************************************************************************)
(* Proofs about the routes, for any streams, captures and applications and *)
(* wherever the daemon is killed: the journal names the active route; no   *)
(* conversation is put on REMOTE_IN beside another that the watcher knows  *)
(* of; a route is given up only when its stream is back or gone, each for  *)
(* any number of failing commands; and no channel of a stream is lost,     *)
(* when at most one command of a call fails and no pw-link times out after *)
(* its effect.                                                             *)
(***************************************************************************)
EXTENDS RoutingWatcher, FiniteSetTheorems, TLAPS

----------------------------------------------------------------------------
(* The inductive invariant, as a relation of the call to the active route   *)
(* and the journal.                                                         *)

\* Records with the fields of a route and of a call, whatever the fields hold.
IsRoute(r) == r \in [sid : {r.sid}, app : {r.app}, method : {r.method}]
IsCall(c) ==
    /\ c \in [pc : {c.pc}, new : {c.new}, old : {c.old}, reused : {c.reused},
              ending : {c.ending}, seen : {c.seen}, moved : {c.moved}, script : {c.script},
              undo : {c.undo}, faults : {c.faults}]
    /\ IsRoute(c.new)

\* The labels at which no route is active: a new one is being made or undone, or an old one
\* has been given up.
Unrouted == {"move", "link", "persist", "undoMove", "undoRoute", "clearUndo", "clearOld",
             "clearEnd", "moveStale", "clearStale"}

\* A new route is a route; a kept one is the active one; and the captures follow a route
\* that the journal has.
Agrees(c, a, j) ==
    /\ IsCall(c)
    /\ c.pc \in Unrouted => a = NoRoute
    /\ c.pc \in {"move", "link", "persist"} => c.new # NoRoute
    /\ c.pc \in {"persistSame", "moveAgain"} => c.new = NoRoute /\ c.old = a
    /\ c.pc \in {"routeOutputs", "undoOutputs"} =>
          IF c.new = NoRoute THEN c.old = a ELSE a = NoRoute
    /\ c.pc = "routeOutputs" /\ c.new # NoRoute => j = c.new

RouteInv ==
    /\ ActiveIsJournaled
    /\ Agrees(call, active, journal)
    /\ mode = "down" => call.pc = "idle"

----------------------------------------------------------------------------
(* Calls and their fields.                                                 *)

\* A jump to another label changes the label only.
LEMMA GotoShape ==
    ASSUME IsCall(call), NEW label
    PROVE  /\ IsCall(Goto(label)) /\ Goto(label).pc = label
           /\ Goto(label).new = call.new /\ Goto(label).old = call.old
  BY DEF IsCall, IsRoute, Goto

\* No call: nothing is promised.
LEMMA NoCallAgrees ==
    /\ IsCall(NoCall) /\ NoCall.pc = "idle" /\ NoCall.new = NoRoute /\ NoCall.old = NoRoute
    /\ \A a, j : Agrees(NoCall, a, j)
  BY DEF IsCall, IsRoute, NoCall, NoRoute, Agrees, Unrouted

\* Counting a failure leaves label and routes alone.
LEMMA FailingShape ==
    ASSUME NEW c, IsCall(c)
    PROVE  /\ IsCall(Failing(c)) /\ Failing(c).pc = c.pc
           /\ Failing(c).new = c.new /\ Failing(c).old = c.old
  <1>1. CASE c = NoCall
    BY <1>1 DEF Failing
  <1>2. CASE c # NoCall
    BY <1>2 DEF Failing, IsCall, IsRoute
  <1> QED
    BY <1>1, <1>2

\* What Agrees says depends on label and routes only.
LEMMA SameAgrees ==
    ASSUME NEW c, NEW d, NEW a, NEW j, Agrees(c, a, j), IsCall(d),
           d.pc = c.pc, d.new = c.new, d.old = c.old
    PROVE  Agrees(d, a, j)
  BY DEF Agrees

\* A call begins with its label, its routes and the captures as discovered.
LEMMA CallForShape ==
    ASSUME NEW label, NEW s, NEW old
    PROVE  /\ IsCall(CallFor(label, s, old)) /\ CallFor(label, s, old).pc = label
           /\ CallFor(label, s, old).new = NewRoute(s) /\ CallFor(label, s, old).old = old
  <1>1. IsRoute(NewRoute(s))
    BY DEF IsRoute, NewRoute, NoRoute
  <1> QED
    BY <1>1, NoCallAgrees DEF CallFor, IsCall

\* A stream's new route is a route.
LEMMA NewRouteFacts == NewRoute(0) = NoRoute /\ \A s : s # 0 => NewRoute(s) # NoRoute
  BY DEF NewRoute, NoRoute

----------------------------------------------------------------------------
(* The calls begin in agreement.                                           *)

\* route_candidate_stream makes a new route only when none is active.
LEMMA RouteCandidateAgrees ==
    ASSUME NEW s, s # 0
    PROVE  Agrees(RouteCandidate(s), active, journal)
  <1>1. CASE active = NoRoute
    <2>1. RouteCandidate(s) = CallFor("move", s, NoRoute)
      BY <1>1 DEF RouteCandidate, same_route_identity, NoRoute
    <2> QED
      BY <1>1, <2>1, CallForShape, NewRouteFacts DEF Agrees, Unrouted
  <1>2. CASE active # NoRoute
    <2>1. RouteCandidate(s) \in {CallFor("persistSame", 0, active),
                                 CallFor("dropOutputs", s, active),
                                 CallFor("restoreOld", s, active)}
      BY <1>2 DEF RouteCandidate
    <2> QED
      BY <2>1, CallForShape, NewRouteFacts DEF Agrees, Unrouted
  <1> QED
    BY <1>1, <1>2

\* A kept route is the active one.
LEMMA KeepActiveAgrees ==
    ASSUME NEW s
    PROVE  Agrees(KeepActive(s), active, journal)
  <1>1. CASE should_yield_browser_fallback(s) /\ single_call_like_replacement # 0
    BY <1>1, RouteCandidateAgrees DEF KeepActive
  <1>2. CASE ~(should_yield_browser_fallback(s) /\ single_call_like_replacement # 0)
    <2>1. \E label \in {"persistSame", "moveAgain", "routeOutputs"} :
             KeepActive(s) = CallFor(label, 0, active)
      BY <1>2 DEF KeepActive
    <2> QED
      BY <2>1, CallForShape, NewRouteFacts DEF Agrees, Unrouted
  <1> QED
    BY <1>1, <1>2

\* restore_active begins with what it gives up.
LEMMA RestoreCallAgrees == Agrees(RestoreCall, active, journal)
  <1>1. PICK label \in {"restoreOld", "dropOutputs"}, old \in {NoRoute, active} :
           RestoreCall = [CallFor(label, 0, old) EXCEPT !.ending = TRUE]
    BY DEF RestoreCall
  <1>2. IsCall(CallFor(label, 0, old)) /\ CallFor(label, 0, old).pc = label
    BY CallForShape
  <1> HIDE DEF CallFor
  <1>3. IsCall(RestoreCall) /\ RestoreCall.pc = label
    BY <1>1, <1>2 DEF IsCall
  <1> QED
    BY <1>3 DEF Agrees, Unrouted

----------------------------------------------------------------------------
(* Every step keeps the agreement.                                         *)

\* A script of pw-link commands leaves the call's routes alone until it ends in one of the
\* two calls it was given.
LEMMA RunLinksEnds ==
    ASSUME NEW s, NEW rollback, NEW done, NEW failed, IsCall(call), IsCall(done),
           IsCall(failed), RunLinks(s, rollback, done, failed)
    PROVE  /\ IsCall(call')
           /\ \E c \in {call, done, failed} :
                 call'.pc = c.pc /\ call'.new = c.new /\ call'.old = c.old
  <1> DEFINE Like(d, c) == IsCall(d) /\ d.pc = c.pc /\ d.new = c.new /\ d.old = c.old
  <1>1. ASSUME NEW script, NEW undo
        PROVE  /\ Like([call EXCEPT !.script = script], call)
               /\ Like([call EXCEPT !.script = script, !.undo = undo], call)
    BY DEF IsCall
  <1>2. ASSUME NEW c \in {done, failed}, call' = AfterLink(c)
        PROVE  Like(call', c) \/ Like(call', call)
    BY <1>1, <1>2 DEF AfterLink
  <1>3. ASSUME NEW c, IsCall(c), call' = Failing(c)
        PROVE  Like(call', c)
    BY <1>3, FailingShape
  <1>4. CASE \E c \in {done, failed} : call' = AfterLink(c)
    BY <1>2, <1>4
  <1>5. CASE call' = Failing(failed)
    BY <1>3, <1>5
  <1>6. CASE \E back : call' = Failing([call EXCEPT !.script = back, !.undo = TRUE])
    <2>1. PICK back : call' = Failing([call EXCEPT !.script = back, !.undo = TRUE])
      BY <1>6
    <2> DEFINE c == [call EXCEPT !.script = back, !.undo = TRUE]
    <2>2. Like(c, call)
      BY <1>1
    <2> HIDE DEF c
    <2>3. Like(call', c)
      BY <1>3, <2>1, <2>2 DEF c
    <2> QED
      BY <2>2, <2>3
  <1> QED
    BY <1>4, <1>5, <1>6 DEF RunLinks, Continue

\* A command runs in a daemon that is not down, so only agreement is left to show.
LEMMA CommandKeeps ==
    ASSUME RouteInv, call.pc # "idle", mode' = mode, ActiveIsJournaled',
           Agrees(call', active', journal')
    PROVE  RouteInv'
  BY DEF RouteInv

\* A command that returns or goes to a label without promises.
LEMMA QuietKeeps ==
    ASSUME RouteInv, call.pc # "idle", mode' = mode, active' = active, journal' = journal,
           call' = NoCall \/ (IsCall(call') /\ call'.pc = "dropOutputs")
    PROVE  RouteInv'
  <1>1. Agrees(call', active', journal')
    BY NoCallAgrees DEF Agrees, Unrouted
  <1> QED
    BY <1>1, CommandKeeps DEF RouteInv, ActiveIsJournaled

\* reconcile(None), in all its cases.
LEMMA RefreshKeeps == RouteInv /\ Refresh => RouteInv'
  <1> SUFFICES ASSUME RouteInv, Refresh PROVE RouteInv'
    OBVIOUS
  <1>1. mode' = mode /\ mode = "up" /\ journal' = journal
    BY DEF Refresh, CanCall
  <1>2. CASE active' = active /\ Agrees(call', active, journal)
    BY <1>1, <1>2 DEF RouteInv, ActiveIsJournaled
  <1>3. CASE active' = NoRoute /\ IsCall(call') /\ call'.pc = "dropOutputs"
    BY <1>1, <1>3 DEF RouteInv, ActiveIsJournaled, Agrees, Unrouted
  <1>4. CASE call' = RestoreCall /\ UNCHANGED memory
    BY <1>2, <1>4, RestoreCallAgrees DEF memory
  <1>5. CASE /\ active = NoRoute /\ UNCHANGED memory
             /\ call' = CallFor("moveStale", StaleRemote, NoRoute)
    <2>1. Agrees(call', active, journal)
      BY <1>5, CallForShape DEF Agrees, Unrouted
    <2> QED
      BY <1>2, <1>5, <2>1 DEF memory
  <1>6. CASE UNCHANGED memory /\ \E s : call' = KeepActive(s)
    BY <1>2, <1>6, KeepActiveAgrees DEF memory
  <1>7. CASE /\ active' = NoRoute
             /\ call' = [CallFor("dropOutputs", Successor, active)
                            EXCEPT !.reused = active.sid \in Candidates]
    <2> DEFINE c == CallFor("dropOutputs", Successor, active)
    <2>1. IsCall(c) /\ c.pc = "dropOutputs"
      BY CallForShape
    <2> HIDE DEF c
    <2>2. IsCall(call') /\ call'.pc = "dropOutputs"
      <3>1. call' = [c EXCEPT !.reused = active.sid \in Candidates]
        BY <1>7 DEF c
      <3> QED
        BY <2>1, <3>1 DEF IsCall
    <2> QED
      BY <1>3, <1>7, <2>2
  <1>8. CASE UNCHANGED memory /\ \E s : s # 0 /\ call' = RouteCandidate(s)
    BY <1>2, <1>8, RouteCandidateAgrees DEF memory
  <1>9. StaleRemote # 0 => active = NoRoute
    BY DEF StaleRemote
  <1> QED
    BY <1>4, <1>5, <1>6, <1>7, <1>8, <1>9 DEF Refresh, Continue

\* The user chooses a stream.
LEMMA ManualRouteKeeps ==
    ASSUME RouteInv, NEW s \in StreamIds, ManualRoute(s)
    PROVE  RouteInv'
  <1>1. /\ mode' = mode /\ mode = "up" /\ journal' = journal /\ active' = active
        /\ call' = RouteCandidate(s)
    BY DEF ManualRoute, CanCall, memory, Continue
  <1>2. Agrees(call', active, journal)
    BY <1>1, RouteCandidateAgrees, RoutingAssumption
  <1> QED
    BY <1>1, <1>2 DEF RouteInv, ActiveIsJournaled

\* Restoring the old route changes neither journal nor active route.
LEMMA RestoreOldKeeps == RouteInv /\ RestoreOld => RouteInv'
  <1> SUFFICES ASSUME RouteInv, RestoreOld PROVE RouteInv'
    OBVIOUS
  <1>1. /\ call.pc = "restoreOld" /\ mode' = mode /\ active' = active
        /\ journal' = journal /\ IsCall(call)
    BY DEF RestoreOld, At, memory, RouteInv, Agrees
  <1>2. IsCall(Goto("dropOutputs")) /\ Goto("dropOutputs").pc = "dropOutputs"
    BY <1>1, GotoShape
  <1>3. CASE call' = NoCall \/ call' = Goto("dropOutputs")
    BY <1>1, <1>2, <1>3, QuietKeeps
  <1>4. CASE RunLinks(call.old.sid, RestoreUndo, Goto("dropOutputs"), NoCall)
    <2>1. IsCall(call') /\ call'.pc \in {"restoreOld", "dropOutputs", "idle"}
      BY <1>1, <1>2, <1>4, NoCallAgrees, RunLinksEnds
    <2>2. Agrees(call', active', journal')
      BY <2>1 DEF Agrees, Unrouted
    <2> QED
      BY <1>1, <2>2, CommandKeeps DEF RouteInv, ActiveIsJournaled
  <1> QED
    BY <1>3, <1>4 DEF RestoreOld, Continue, Return

\* Restoring a capture changes neither of them.
LEMMA DropOutputKeeps == RouteInv /\ DropOutput => RouteInv'
  <1> SUFFICES ASSUME RouteInv, DropOutput PROVE RouteInv'
    OBVIOUS
  <1>1. /\ call.pc = "dropOutputs" /\ mode' = mode /\ active' = active
        /\ journal' = journal /\ IsCall(call)
    BY DEF DropOutput, At, memory, RouteInv, Agrees
  <1>2. call' = NoCall \/ \E m : call' = [call EXCEPT !.moved = m]
    BY DEF DropOutput, Continue, Return
  <1>3. call' = NoCall \/ (IsCall(call') /\ call'.pc = "dropOutputs")
    BY <1>1, <1>2 DEF IsCall
  <1> QED
    BY <1>1, <1>3, QuietKeeps

\* The old route is forgotten.
LEMMA OutputsDroppedKeeps == RouteInv /\ OutputsDropped => RouteInv'
  <1> SUFFICES ASSUME RouteInv, OutputsDropped PROVE RouteInv'
    OBVIOUS
  <1>1. /\ call.pc = "dropOutputs" /\ mode' = mode /\ active' = NoRoute /\ IsCall(call)
    BY DEF OutputsDropped, At, RouteInv, Agrees
  <1>2. call' = Goto("clearEnd") \/ call' = [Goto("clearOld") EXCEPT !.moved = {}]
    BY DEF OutputsDropped, Continue
  <1>3. IsCall(call') /\ call'.pc \in {"clearEnd", "clearOld"}
    BY <1>1, <1>2 DEF IsCall, Goto
  <1>4. Agrees(call', active', journal')
    BY <1>1, <1>3 DEF Agrees, Unrouted
  <1> QED
    BY <1>1, <1>4, CommandKeeps DEF ActiveIsJournaled

\* The journal is cleared only when no route is active.
LEMMA ClearOldKeeps == RouteInv /\ ClearOld => RouteInv'
  <1> SUFFICES ASSUME RouteInv, ClearOld PROVE RouteInv'
    OBVIOUS
  <1>1. /\ call.pc = "clearOld" /\ mode' = mode /\ active' = active /\ active = NoRoute
        /\ IsCall(call)
    BY DEF ClearOld, At, RouteInv, Agrees, Unrouted
  <1>2. \/ call' = NoCall
        \/ call.new # NoRoute /\ call' = [Goto("move") EXCEPT !.script = <<>>]
    BY DEF ClearOld, Continue, Return
  <1>3. \/ call' = NoCall
        \/ IsCall(call') /\ call'.pc = "move" /\ call'.new # NoRoute
    BY <1>1, <1>2 DEF IsCall, Goto
  <1>4. Agrees(call', active', journal')
    BY <1>1, <1>3, NoCallAgrees DEF Agrees, Unrouted
  <1> QED
    BY <1>1, <1>4, CommandKeeps DEF ActiveIsJournaled

\* The last step of a call that leaves no route.
LEMMA ClearLastKeeps == RouteInv /\ ClearLast => RouteInv'
  <1> SUFFICES ASSUME RouteInv, ClearLast PROVE RouteInv'
    OBVIOUS
  <1>1. /\ call.pc # "idle" /\ mode' = mode /\ active' = NoRoute /\ call' = NoCall
    BY DEF ClearLast, RouteInv, Agrees, Unrouted, memory, Return
  <1> QED
    BY <1>1, NoCallAgrees, CommandKeeps DEF ActiveIsJournaled

\* The stream is moved before its route is journaled, and before it is active.
LEMMA MoveNewKeeps == RouteInv /\ MoveNew => RouteInv'
  <1> SUFFICES ASSUME RouteInv, MoveNew PROVE RouteInv'
    OBVIOUS
  <1>1. /\ call.pc = "move" /\ mode' = mode /\ active' = active /\ active = NoRoute
        /\ IsCall(call) /\ call.new # NoRoute
    BY DEF MoveNew, At, RouteInv, Agrees, Unrouted
  <1>2. \/ call' = NoCall \/ call' = Goto("persist")
        \/ call' = [Goto("link") EXCEPT !.script = RouteScript]
    BY DEF MoveNew, Continue, Return
  <1>3. \/ call' = NoCall
        \/ IsCall(call') /\ call'.pc \in {"persist", "link"} /\ call'.new # NoRoute
    BY <1>1, <1>2 DEF IsCall, Goto
  <1>4. Agrees(call', active', journal')
    BY <1>1, <1>3, NoCallAgrees DEF Agrees, Unrouted
  <1> QED
    BY <1>1, <1>4, CommandKeeps DEF ActiveIsJournaled

\* The links of a new route, likewise.
LEMMA LinkNewKeeps == RouteInv /\ LinkNew => RouteInv'
  <1> SUFFICES ASSUME RouteInv, LinkNew PROVE RouteInv'
    OBVIOUS
  <1> DEFINE done == [Goto("persist") EXCEPT !.new.method = "PipeWireLinks"]
  <1>1. /\ call.pc = "link" /\ mode' = mode /\ active' = active /\ active = NoRoute
        /\ IsCall(call) /\ call.new # NoRoute
    BY DEF LinkNew, At, RouteInv, Agrees, Unrouted
  <1>2. IsCall(done) /\ done.pc = "persist" /\ done.new.method = "PipeWireLinks"
    <2>1. /\ IsCall(Goto("persist")) /\ Goto("persist").pc = "persist"
      BY <1>1, GotoShape
    <2> QED
      BY <2>1 DEF IsCall, IsRoute
  <1>3. done.new # NoRoute
    BY <1>2 DEF NoRoute
  <1>4. RunLinks(call.new.sid, RouteUndo, done, NoCall)
    BY DEF LinkNew
  <1> HIDE DEF done
  <1>5. /\ IsCall(call')
        /\ \/ call'.pc = "idle"
           \/ call'.pc \in {"link", "persist"} /\ call'.new # NoRoute
    BY <1>1, <1>2, <1>3, <1>4, NoCallAgrees, RunLinksEnds
  <1>6. Agrees(call', active', journal')
    BY <1>1, <1>5 DEF Agrees, Unrouted
  <1> QED
    BY <1>1, <1>6, CommandKeeps DEF ActiveIsJournaled

\* The active stream is moved back to REMOTE_IN.
LEMMA MoveAgainKeeps == RouteInv /\ MoveAgain => RouteInv'
  <1> SUFFICES ASSUME RouteInv, MoveAgain PROVE RouteInv'
    OBVIOUS
  <1>1. /\ call.pc = "moveAgain" /\ mode' = mode /\ active' = active /\ journal' = journal
        /\ IsCall(call) /\ call.new = NoRoute /\ call.old = active
    BY DEF MoveAgain, At, memory, RouteInv, Agrees
  <1>2. call' = NoCall \/ call' = Goto("persistSame")
    BY DEF MoveAgain, Continue, Return
  <1>3. Agrees(call', active', journal')
    BY <1>1, <1>2, GotoShape, NoCallAgrees DEF Agrees, Unrouted
  <1> QED
    BY <1>1, <1>3, CommandKeeps DEF RouteInv, ActiveIsJournaled

\* The new route is in the journal before its captures are moved; if it may not be, the
\* route is undone.
LEMMA PersistNewKeeps == RouteInv /\ PersistNew => RouteInv'
  <1> SUFFICES ASSUME RouteInv, PersistNew PROVE RouteInv'
    OBVIOUS
  <1>1. /\ call.pc = "persist" /\ mode' = mode /\ active' = active /\ active = NoRoute
        /\ IsCall(call) /\ call.new # NoRoute
    BY DEF PersistNew, At, RouteInv, Agrees, Unrouted
  <1> DEFINE next == [Goto("routeOutputs") EXCEPT !.script = <<>>]
             undo == [Goto("undoMove") EXCEPT !.script = RestoreScript]
  <1>2. /\ IsCall(next) /\ next.pc = "routeOutputs" /\ next.new = call.new
        /\ IsCall(undo) /\ undo.pc = "undoMove"
    BY <1>1 DEF IsCall, Goto
  <1>3. (journal' = call.new /\ call' = next) \/ call' = Failing(undo)
    BY DEF PersistNew, Continue
  <1> HIDE DEF next, undo
  <1>4. Agrees(call', active', journal')
    BY <1>1, <1>2, <1>3, FailingShape DEF Agrees, Unrouted
  <1> QED
    BY <1>1, <1>4, CommandKeeps DEF ActiveIsJournaled

\* Writing the active route again.
LEMMA PersistSameKeeps == RouteInv /\ PersistSame => RouteInv'
  <1> SUFFICES ASSUME RouteInv, PersistSame PROVE RouteInv'
    OBVIOUS
  <1>1. /\ call.pc = "persistSame" /\ mode' = mode /\ active' = active
        /\ IsCall(call) /\ call.new = NoRoute /\ call.old = active
    BY DEF PersistSame, At, memory, RouteInv, Agrees
  <1>2. /\ call' = NoCall \/ call' = Goto("routeOutputs")
        /\ journal' \in {journal, call.old}
    BY DEF PersistSame, Continue, Return
  <1>3. Agrees(call', active', journal')
    BY <1>1, <1>2, GotoShape, NoCallAgrees DEF Agrees, Unrouted
  <1> QED
    BY <1>1, <1>2, <1>3, CommandKeeps DEF RouteInv, ActiveIsJournaled

\* A call whose captures failed returns, or undoes the route it was making.
LEMMA AfterFailureShape ==
    ASSUME IsCall(call)
    PROVE  /\ IsCall(AfterOutputFailure)
           /\ \/ call.new = NoRoute /\ AfterOutputFailure = NoCall
              \/ call.new # NoRoute /\ AfterOutputFailure.pc = "undoRoute"
  <1>1. CASE call.new = NoRoute
    BY <1>1, NoCallAgrees DEF AfterOutputFailure
  <1>2. CASE call.new # NoRoute
    BY <1>2 DEF AfterOutputFailure, IsCall, Goto
  <1> QED
    BY <1>1, <1>2

\* A capture is moved, or its failure undoes the new route.
LEMMA RouteOutputKeeps == RouteInv /\ RouteOutput => RouteInv'
  <1> SUFFICES ASSUME RouteInv, RouteOutput PROVE RouteInv'
    OBVIOUS
  <1>1. /\ call.pc = "routeOutputs" /\ mode' = mode /\ active' = active
        /\ journal' = journal /\ IsCall(call)
        /\ IF call.new = NoRoute THEN call.old = active ELSE active = NoRoute
    BY DEF RouteOutput, At, RouteInv, Agrees
  <1>2. CASE \E m : call' = [call EXCEPT !.moved = m]
    <2>1. /\ IsCall(call') /\ call'.pc = call.pc /\ call'.new = call.new
          /\ call'.old = call.old
      BY <1>1, <1>2 DEF IsCall
    <2>2. Agrees(call', active', journal')
      BY <1>1, <2>1, SameAgrees DEF RouteInv
    <2> QED
      BY <1>1, <2>2, CommandKeeps DEF RouteInv, ActiveIsJournaled
  <1>3. CASE call' = Failing(AfterOutputFailure) \/ call' = Failing(Goto("undoOutputs"))
    <2>1. Agrees(call', active', journal')
      BY <1>1, <1>3, FailingShape, AfterFailureShape, GotoShape, NoCallAgrees
      DEF Agrees, Unrouted
    <2> QED
      BY <1>1, <2>1, CommandKeeps DEF RouteInv, ActiveIsJournaled
  <1> QED
    BY <1>2, <1>3 DEF RouteOutput, Continue

\* The captures of a failed call are moved back.
LEMMA UndoOutputKeeps == RouteInv /\ UndoOutput => RouteInv'
  <1> SUFFICES ASSUME RouteInv, UndoOutput PROVE RouteInv'
    OBVIOUS
  <1>1. /\ call.pc = "undoOutputs" /\ mode' = mode /\ active' = active
        /\ journal' = journal /\ IsCall(call)
        /\ IF call.new = NoRoute THEN call.old = active ELSE active = NoRoute
    BY DEF UndoOutput, At, memory, RouteInv, Agrees
  <1>2. CASE \E m : call' = [call EXCEPT !.moved = m]
    <2>1. /\ IsCall(call') /\ call'.pc = call.pc /\ call'.new = call.new
          /\ call'.old = call.old
      BY <1>1, <1>2 DEF IsCall
    <2>2. Agrees(call', active', journal')
      BY <1>1, <2>1, SameAgrees DEF RouteInv
    <2> QED
      BY <1>1, <2>2, CommandKeeps DEF RouteInv, ActiveIsJournaled
  <1>3. CASE call' = [AfterOutputFailure EXCEPT !.moved = {}]
    <2>1. /\ IsCall(call') /\ call'.pc = AfterOutputFailure.pc
      BY <1>1, <1>3, AfterFailureShape DEF IsCall
    <2>2. Agrees(call', active', journal')
      BY <1>1, <2>1, AfterFailureShape, NoCallAgrees DEF Agrees, Unrouted
    <2> QED
      BY <1>1, <2>2, CommandKeeps DEF RouteInv, ActiveIsJournaled
  <1> QED
    BY <1>2, <1>3 DEF UndoOutput, Continue

\* The route becomes active: it is the one that was active, or the one in the journal.
LEMMA OutputsRoutedKeeps == RouteInv /\ OutputsRouted => RouteInv'
  <1> SUFFICES ASSUME RouteInv, OutputsRouted PROVE RouteInv'
    OBVIOUS
  <1>1. /\ call.pc = "routeOutputs" /\ mode' = mode /\ active' = Routed
        /\ journal' = journal /\ call' = NoCall
    BY DEF OutputsRouted, At, Return
  <1>2. ActiveIsJournaled'
    BY <1>1 DEF Routed, RouteInv, Agrees, ActiveIsJournaled
  <1> QED
    BY <1>1, <1>2, NoCallAgrees, CommandKeeps

\* The new route is undone; none is active.
LEMMA UndoKeeps == RouteInv /\ Undo => RouteInv'
  <1> SUFFICES ASSUME RouteInv, Undo PROVE RouteInv'
    OBVIOUS
  <1> DEFINE next == IF At("undoRoute") THEN Goto("clearUndo") ELSE NoCall
  <1>1. /\ call.pc \in {"undoMove", "undoRoute"} /\ mode' = mode /\ active' = NoRoute
        /\ IsCall(call)
    BY DEF Undo, memory, RouteInv, Agrees, Unrouted
  <1>2. IsCall(next) /\ next.pc \in {"clearUndo", "idle"}
    BY <1>1, GotoShape, NoCallAgrees
  <1>3. call' = next \/ RunLinks(call.new.sid, RestoreUndo, next, next)
    BY DEF Undo, Continue
  <1> HIDE DEF next
  <1>4. IsCall(call') /\ call'.pc \in {"undoMove", "undoRoute", "clearUndo", "idle"}
    BY <1>1, <1>2, <1>3, RunLinksEnds
  <1>5. Agrees(call', active', journal')
    BY <1>1, <1>4 DEF Agrees, Unrouted
  <1> QED
    BY <1>1, <1>5, CommandKeeps DEF ActiveIsJournaled

\* A stray stream is moved; no route is active.
LEMMA MoveStaleKeeps == RouteInv /\ MoveStale => RouteInv'
  <1> SUFFICES ASSUME RouteInv, MoveStale PROVE RouteInv'
    OBVIOUS
  <1>1. /\ call.pc = "moveStale" /\ mode' = mode /\ active' = NoRoute
        /\ IsCall(call) /\ (call' = NoCall \/ call' = Goto("clearStale"))
    BY DEF MoveStale, At, RouteInv, Agrees, Unrouted, Continue, Return
  <1>2. Agrees(call', active', journal')
    BY <1>1, GotoShape, NoCallAgrees DEF Agrees, Unrouted
  <1> QED
    BY <1>1, <1>2, CommandKeeps DEF ActiveIsJournaled

----------------------------------------------------------------------------
(* The daemon's process and the world around it.                           *)

\* A daemon that starts takes the journal's route for the active one, and no call runs yet.
LEMMA ProcessKeeps ==
    RouteInv /\ (BeginStop \/ RestoreOnStop \/ Exit \/ Crash \/ Start) => RouteInv'
  <1> SUFFICES ASSUME RouteInv, BeginStop \/ RestoreOnStop \/ Exit \/ Crash \/ Start
               PROVE  RouteInv'
    OBVIOUS
  <1>1. CASE BeginStop
    BY <1>1 DEF BeginStop, memory, RouteInv, ActiveIsJournaled
  <1>2. CASE RestoreOnStop
    BY <1>2, RestoreCallAgrees DEF RestoreOnStop, memory, Continue, RouteInv, ActiveIsJournaled
  <1>3. CASE Exit \/ Crash
    BY <1>3, NoCallAgrees DEF Exit, Crash, Dead, Return, RouteInv, ActiveIsJournaled
  <1>4. CASE Start
    <2>1. /\ call' = call /\ call.pc = "idle" /\ mode' = "up" /\ active' = journal
          /\ journal' = journal
      BY <1>4 DEF Start, RouteInv
    <2> QED
      BY <2>1 DEF RouteInv, ActiveIsJournaled, Agrees, Unrouted
  <1> QED
    BY <1>1, <1>2, <1>3, <1>4

\* Streams, captures, devices and the user change neither call nor route nor journal.
LEMMA OthersKeep ==
    RouteInv /\ (Environment \/ UNCHANGED vars) => RouteInv'
  <1>1. Environment \/ UNCHANGED vars =>
           call' = call /\ active' = active /\ journal' = journal /\ mode' = mode
    BY DEF Environment, Appear, Vanish, UserMovesAway, CaptureChanges, DevicesChange,
           memory, vars
  <1> QED
    BY <1>1 DEF RouteInv, ActiveIsJournaled

----------------------------------------------------------------------------
(* The theorem.                                                            *)

\* Every step keeps the invariant.
LEMMA RouteStepKeeps == RouteInv /\ [RoutingNext]_vars => RouteInv'
  <1> SUFFICES ASSUME RouteInv, [RoutingNext]_vars PROVE RouteInv'
    OBVIOUS
  <1>1. CASE Refresh
    BY <1>1, RefreshKeeps
  <1>2. CASE \E s \in StreamIds : ManualRoute(s)
    BY <1>2, ManualRouteKeeps
  <1>3. CASE Commands
    BY <1>3, RestoreOldKeeps, DropOutputKeeps, OutputsDroppedKeeps, ClearOldKeeps,
       ClearLastKeeps, MoveNewKeeps, LinkNewKeeps, MoveAgainKeeps, PersistNewKeeps,
       PersistSameKeeps, RouteOutputKeeps, UndoOutputKeeps, OutputsRoutedKeeps, UndoKeeps,
       MoveStaleKeeps DEF Commands
  <1>4. CASE BeginStop \/ RestoreOnStop \/ Exit \/ Crash \/ Start
    BY <1>4, ProcessKeeps
  <1>5. CASE Environment \/ UNCHANGED vars
    BY <1>5, OthersKeep
  <1> QED
    BY <1>1, <1>2, <1>3, <1>4, <1>5 DEF RoutingNext

\* Whatever fails, whenever the daemon is killed and whatever streams come and go, an active
\* route is the route in the journal: a daemon that starts finds what it has to undo.
THEOREM RouteIsJournaled == RoutingSpec => []ActiveIsJournaled
  <1>1. RoutingInit => RouteInv
    BY NoCallAgrees DEF RoutingInit, RouteInv, ActiveIsJournaled
  <1>2. RouteInv => ActiveIsJournaled
    BY DEF RouteInv
  <1> QED
    BY <1>1, <1>2, RouteStepKeeps, PTL DEF RoutingSpec

----------------------------------------------------------------------------
(* Where the streams are: the second inductive invariant, again a relation  *)
(* of the call to the active route.                                         *)

\* A route of a stream of an application on the allow list.
Routes == [sid : StreamIds, app : Apps, method : {"PulseMove", "PipeWireLinks"}]
RoutesOrNone == Routes \cup {NoRoute}
StreamRecords == [kind : Kinds \cup {"none"}, sink : Sinks]

\* A stream that the watcher put on REMOTE_IN is reported there.
WorldShape ==
    /\ streams \in [StreamIds -> StreamRecords] /\ ports = [s \in StreamIds |-> ports[s]]
    /\ placed \subseteq StreamIds /\ \A s \in placed : streams[s].sink = "remote"

\* What is left of a script that takes the links of a stream back from REMOTE_IN.
RestoreScripts == {RestoreScript, <<Link("oR"), Unlink("rL"), Unlink("rR")>>,
                   <<Unlink("rL"), Unlink("rR")>>, <<Unlink("rR")>>}

\* The left link is gone when the right one is the last to go.
Restoring(c, s) ==
    IF c.undo THEN c.script = <<Unlink("oL")>>
    ELSE c.script \in RestoreScripts /\ (c.script = <<Unlink("rR")>> => "rL" \notin ports[s])

ScriptShape(c) ==
    /\ c.undo \in BOOLEAN
    /\ c.undo => \/ c.pc \in {"link", "clearUndo"}
                 \/ c.pc = "restoreOld" /\ c.old.method = "PipeWireLinks"
                 \/ c.pc \in {"undoMove", "undoRoute"} /\ c.new.method = "PipeWireLinks"
    /\ c.pc = "restoreOld" /\ c.old.method = "PipeWireLinks" => Restoring(c, c.old.sid)
    /\ c.pc \in {"undoMove", "undoRoute"} /\ c.new.method = "PipeWireLinks" =>
         Restoring(c, c.new.sid)

\* The streams that the watcher put on REMOTE_IN and that are heard there.
Mixed == {s \in placed : ports[s] \cap {"rL", "rR"} # {}}

\* A call that is to move a stream has first taken back the one that was routed.
MixShape(c) ==
    /\ \A s, t \in Mixed : s = t
    /\ c.pc \in {"dropOutputs", "clearOld", "move"} /\ c.new # NoRoute => Mixed = {}
    /\ c.pc = "restoreOld" /\ c.new # NoRoute => Mixed \subseteq {c.old.sid}
    /\ c.pc = "moveAgain" => Mixed \subseteq {c.old.sid}
    /\ c.pc = "link" => Mixed \subseteq {c.new.sid}

\* The route given up is the active one, and it is given up once its stream is back.
ReleaseShape(c, a) ==
    /\ c.pc = "restoreOld" => c.old = a /\ a # NoRoute
    /\ c.pc \in {"undoMove", "undoRoute"} => c.new # NoRoute
    /\ c.pc = "dropOutputs" /\ a # NoRoute => ~StillRouted(a)

PlaceOK(c, a) ==
    /\ c.new \in RoutesOrNone /\ c.old \in RoutesOrNone
    /\ ScriptShape(c) /\ MixShape(c) /\ ReleaseShape(c, a)

RoutesKnown ==
    /\ active \in RoutesOrNone /\ journal \in RoutesOrNone
    /\ mode = "down" => active = NoRoute

PlaceInv == RouteInv /\ WorldShape /\ RoutesKnown /\ PlaceOK(call, active)

----------------------------------------------------------------------------
(* What a discovery tells.                                                 *)

\* The only element of a set is in it.
LEMMA OnlyIn == ASSUME NEW S PROVE Only(S) = 0 \/ Only(S) \in S
  <1>1. Cardinality(S) = 1 => S # {}
    BY FS_EmptySet
  <1> QED
    BY <1>1 DEF Only

\* A candidate is a live stream of an application, not the value for no stream.
LEMMA CandidateFacts ==
    ASSUME WorldShape, NEW s \in Candidates
    PROVE  s \in StreamIds /\ s # 0 /\ s \in Live /\ AppOf(s) \in Apps /\ NewRoute(s) \in Routes
  <1>1. s \in StreamIds /\ s # 0 /\ s \in Live /\ AppOf(s) # "none"
    BY RoutingAssumption DEF Candidates, Live, classify_application
  <1>2. AppOf(s) \in Apps
    BY <1>1 DEF AppOf, Apps
  <1> QED
    BY <1>1, <1>2 DEF NewRoute, Routes

\* The streams that the watcher chooses from are candidates.
LEMMA ChoicesAreCandidates ==
    /\ \A app : Replacement(app) = 0 \/ Replacement(app) \in Candidates
    /\ single_auto_route_candidate = 0 \/ single_auto_route_candidate \in Candidates
    /\ single_call_like_replacement = 0 \/ single_call_like_replacement \in Candidates
    /\ Successor = 0 \/ Successor \in Candidates
  <1>1. \A app : Replacement(app) = 0 \/ Replacement(app) \in Candidates
    BY OnlyIn DEF Replacement
  <1>2. single_auto_route_candidate = 0 \/ single_auto_route_candidate \in Candidates
    BY OnlyIn DEF single_auto_route_candidate
  <1>3. single_call_like_replacement = 0 \/ single_call_like_replacement \in Candidates
    BY OnlyIn DEF single_call_like_replacement
  <1>4. Successor = 0 \/ Successor \in Candidates
    BY <1>1, <1>2 DEF Successor
  <1> QED
    BY <1>1, <1>2, <1>3, <1>4

\* A stream that was put on REMOTE_IN is live.
LEMMA PlacedAreLive == WorldShape => placed \subseteq Live
  BY DEF WorldShape, Live, NoStream

\* Without a conflict, only the active route is on REMOTE_IN.
LEMMA OnlyActiveIsMixed ==
    ASSUME WorldShape, Conflicting = {}
    PROVE  \A s \in placed : same_route_identity(active, s) /\ s = active.sid
  BY PlacedAreLive DEF Conflicting, WorldShape, same_route_identity

\* The stream of an active route is not in conflict with it: when it is live, it is a
\* candidate.
LEMMA ActiveIsCandidate ==
    ASSUME active \in Routes, NEW s \in StreamIds, same_route_identity(active, s)
    PROVE  s \in Candidates
  BY DEF Routes, Apps, same_route_identity, Candidates, Conflicting, classify_application

----------------------------------------------------------------------------
(* The calls begin in their places.                                        *)

\* The other fields of a call that begins.
LEMMA CallForFields ==
    ASSUME NEW label, NEW s, NEW old
    PROVE  /\ CallFor(label, s, old).undo \in BOOLEAN /\ ~CallFor(label, s, old).undo
            /\ CallFor(label, s, old).faults = 0
           /\ old.method = "PipeWireLinks" => CallFor(label, s, old).script = RestoreScript
  BY DEF CallFor, NoCall

\* No call has a place of its own.
LEMMA NoCallPlace ==
    ASSUME \A s, t \in Mixed : s = t, NEW a
    PROVE  PlaceOK(NoCall, a)
  BY DEF NoCall, PlaceOK, ScriptShape, MixShape, ReleaseShape, RoutesOrNone

\* A call that restores the active route.
LEMMA RestoreOldPlace ==
    ASSUME PlaceInv, active # NoRoute, NEW c, IsCall(c), c.pc = "restoreOld",
           c.old = active, c.undo \in BOOLEAN /\ ~c.undo,
           active.method = "PipeWireLinks" => c.script = RestoreScript,
           \/ c.new = NoRoute
           \/ c.new \in Routes /\ Conflicting = {}
    PROVE  PlaceOK(c, active)
  <1>1. RestoreScript # <<Unlink("rR")>>
    BY DEF RestoreScript, Unlink, Link
  <1>2. ScriptShape(c)
    BY <1>1 DEF ScriptShape, Restoring, RestoreScripts
  <1>3. MixShape(c)
    BY OnlyActiveIsMixed DEF PlaceInv, PlaceOK, MixShape, Mixed
  <1>4. ReleaseShape(c, active)
    BY DEF ReleaseShape
  <1> QED
    BY <1>2, <1>3, <1>4 DEF PlaceOK, PlaceInv, RoutesKnown, RoutesOrNone

\* A call that gives up a route whose stream is not there.
LEMMA DropOutputsPlace ==
    ASSUME PlaceInv, NEW a \in RoutesOrNone, NEW c, IsCall(c), c.pc = "dropOutputs",
           c.old \in RoutesOrNone, c.undo \in BOOLEAN /\ ~c.undo, a # NoRoute => ~StillRouted(a),
           \/ c.new = NoRoute
           \/ c.new \in Routes /\ Mixed = {}
    PROVE  PlaceOK(c, a)
  BY DEF PlaceInv, PlaceOK, ScriptShape, MixShape, ReleaseShape, RoutesOrNone

\* route_candidate_stream.
LEMMA RouteCandidatePlace ==
    ASSUME PlaceInv, Conflicting = {}, NEW s \in Candidates
    PROVE  PlaceOK(RouteCandidate(s), active)
  <1>1. /\ WorldShape /\ active \in RoutesOrNone
        /\ s # 0 /\ NewRoute(s) \in Routes /\ NewRoute(0) = NoRoute
    BY CandidateFacts, NewRouteFacts DEF PlaceInv, RoutesKnown
  <1> DEFINE c == RouteCandidate(s)
  <1>2. CASE active = NoRoute
    <2>1. c = CallFor("move", s, NoRoute)
      BY <1>1, <1>2 DEF RouteCandidate, same_route_identity, NoRoute
    <2>2. Mixed = {}
      <3>1. \A t \in placed : t = 0 /\ t \in StreamIds
        BY <1>1, <1>2, OnlyActiveIsMixed DEF NoRoute, WorldShape
      <3> QED
        BY <3>1, RoutingAssumption DEF Mixed
    <2>3. /\ IsCall(c) /\ c.pc = "move" /\ c.new = NewRoute(s) /\ c.old = NoRoute
          /\ c.undo \in BOOLEAN /\ ~c.undo
      BY <2>1, CallForShape, CallForFields
    <2> QED
      BY <1>1, <2>2, <2>3
         DEF PlaceOK, ScriptShape, MixShape, ReleaseShape, RoutesOrNone
  <1>3. CASE active # NoRoute /\ same_route_identity(active, s)
    <2>1. c = CallFor("persistSame", 0, active)
      BY <1>3 DEF RouteCandidate
    <2>2. /\ IsCall(c) /\ c.pc = "persistSame" /\ c.new = NoRoute /\ c.old = active
          /\ c.undo \in BOOLEAN /\ ~c.undo
      BY <1>1, <2>1, CallForShape, CallForFields
    <2> QED
      BY <1>1, <2>2
         DEF PlaceInv, PlaceOK, ScriptShape, MixShape, ReleaseShape, RoutesOrNone
  <1>4. CASE active # NoRoute /\ ~same_route_identity(active, s) /\ active.sid = s
    <2>1. c = CallFor("dropOutputs", s, active)
      BY <1>4 DEF RouteCandidate
    <2>2. \A t : ~same_route_identity(active, t)
      BY <1>4 DEF same_route_identity
    <2>3. Mixed = {} /\ ~StillRouted(active)
      BY <1>1, <2>2, OnlyActiveIsMixed DEF Mixed, StillRouted
    <2>4. /\ IsCall(c) /\ c.pc = "dropOutputs" /\ c.new = NewRoute(s) /\ c.old = active
          /\ c.undo \in BOOLEAN /\ ~c.undo
      BY <2>1, CallForShape, CallForFields
    <2> HIDE DEF c
    <2>5. PlaceOK(c, active)
      BY <1>1, <2>3, <2>4, DropOutputsPlace
    <2> QED
      BY <2>5 DEF c
  <1>5. CASE active # NoRoute /\ ~same_route_identity(active, s) /\ active.sid # s
    <2>1. c = CallFor("restoreOld", s, active)
      BY <1>5 DEF RouteCandidate
    <2>2. /\ IsCall(c) /\ c.pc = "restoreOld" /\ c.new = NewRoute(s) /\ c.old = active
          /\ c.undo \in BOOLEAN /\ ~c.undo
          /\ active.method = "PipeWireLinks" => c.script = RestoreScript
      BY <2>1, CallForShape, CallForFields
    <2> HIDE DEF c
    <2>3. PlaceOK(c, active)
      BY <1>1, <1>5, <2>2, RestoreOldPlace
    <2> QED
      BY <2>3 DEF c
  <1> QED
    BY <1>2, <1>3, <1>4, <1>5

\* reconcile(None) with the stream of the active route.
LEMMA KeepActivePlace ==
    ASSUME PlaceInv, Conflicting = {}, NEW s
    PROVE  PlaceOK(KeepActive(s), active)
  <1>1. CASE should_yield_browser_fallback(s) /\ single_call_like_replacement # 0
    BY <1>1, ChoicesAreCandidates, RouteCandidatePlace DEF KeepActive
  <1>2. CASE ~(should_yield_browser_fallback(s) /\ single_call_like_replacement # 0)
    <2>1. PICK label \in {"persistSame", "moveAgain", "routeOutputs"} :
             KeepActive(s) = CallFor(label, 0, active)
      BY <1>2 DEF KeepActive
    <2>2. Mixed \subseteq {active.sid} /\ (\A t, u \in Mixed : t = u) /\ active \in RoutesOrNone
      BY OnlyActiveIsMixed DEF PlaceInv, Mixed, RoutesKnown, PlaceOK, MixShape
    <2> DEFINE c == KeepActive(s)
    <2>3. /\ IsCall(c) /\ c.pc = label /\ c.new = NoRoute /\ c.old = active
          /\ c.undo \in BOOLEAN /\ ~c.undo
      BY <2>1, CallForShape, CallForFields, NewRouteFacts
    <2> HIDE DEF c
    <2>4. PlaceOK(c, active)
      BY <2>2, <2>3
         DEF PlaceOK, ScriptShape, MixShape, ReleaseShape, RoutesOrNone
    <2> QED
      BY <2>4 DEF c
  <1> QED
    BY <1>1, <1>2

\* restore_active, also with other streams on REMOTE_IN.
LEMMA RestoreCallPlace ==
    ASSUME PlaceInv
    PROVE  PlaceOK(RestoreCall, active)
  <1> DEFINE found == \E s \in Candidates : same_route_identity(active, s)
             there == active.method = "PipeWireLinks" \/ streams[active.sid].sink = "remote"
             Begins(label, old) == RestoreCall = [CallFor(label, 0, old) EXCEPT !.ending = TRUE]
  <1>1. ASSUME NEW label, NEW old, Begins(label, old)
        PROVE  /\ IsCall(RestoreCall) /\ RestoreCall.pc = label /\ RestoreCall.new = NoRoute
               /\ RestoreCall.old = old /\ RestoreCall.undo \in BOOLEAN /\ ~RestoreCall.undo
               /\ old.method = "PipeWireLinks" => RestoreCall.script = RestoreScript
    <2> DEFINE c == CallFor(label, 0, old)
    <2>1. /\ IsCall(c) /\ c.pc = label /\ c.new = NoRoute /\ c.old = old
          /\ c.undo \in BOOLEAN /\ ~c.undo
          /\ old.method = "PipeWireLinks" => c.script = RestoreScript
      <3>1. c = CallFor(label, 0, old)
        OBVIOUS
      <3> HIDE DEF c
      <3> QED
        BY <3>1, CallForShape, CallForFields, NewRouteFacts
    <2> HIDE DEF c
    <2>2. RestoreCall = [c EXCEPT !.ending = TRUE]
      BY <1>1 DEF c
    <2> QED
      BY <2>1, <2>2 DEF IsCall
  <1>2. active \in RoutesOrNone /\ WorldShape
    BY DEF PlaceInv, RoutesKnown
  <1>3. CASE active = NoRoute
    <2>1. Begins("dropOutputs", NoRoute)
      BY <1>3 DEF RestoreCall
    <2> QED
      BY <1>1, <1>2, <1>3, <2>1, DropOutputsPlace
  <1>4. CASE active # NoRoute /\ found /\ there
    <2>1. Begins("restoreOld", active)
      BY <1>4 DEF RestoreCall
    <2> QED
      BY <1>1, <1>4, <2>1, RestoreOldPlace
  <1>5. CASE active # NoRoute /\ ~(found /\ there)
    <2>1. Begins("dropOutputs", active)
      BY <1>5 DEF RestoreCall
    <2>2. ~StillRouted(active)
      <3> SUFFICES ASSUME NEW s \in StreamIds, same_route_identity(active, s),
                          IF active.method = "PulseMove" THEN s \in placed
                          ELSE ports[s] \cap {"rL", "rR"} # {}
                   PROVE  found /\ there
        BY <1>5 DEF StillRouted
      <3>1. active \in Routes
        BY <1>2, <1>5 DEF RoutesOrNone
      <3>2. s \in Candidates /\ s = active.sid
        BY <3>1, ActiveIsCandidate DEF same_route_identity
      <3> QED
        BY <1>2, <3>1, <3>2 DEF Routes, WorldShape
    <2> QED
      BY <1>1, <1>2, <2>1, <2>2, DropOutputsPlace
  <1> QED
    BY <1>3, <1>4, <1>5

----------------------------------------------------------------------------
(* What the commands do to the world.                                      *)

\* Moving a stream.
LEMMA PutStreamFacts ==
    ASSUME WorldShape, NEW s \in StreamIds, NEW sink \in Sinks, PutStream(s, sink)
    PROVE  /\ WorldShape'
           /\ sink = "phys" => s \notin placed' /\ Mixed' \subseteq Mixed
           /\ sink = "remote" => Mixed' \subseteq Mixed \cup {s}
  <1> USE DEF PutStream
  <1>1. streams' \in [StreamIds -> StreamRecords]
    BY DEF WorldShape, StreamRecords
  <1>2. ports' = [t \in StreamIds |-> ports'[t]]
    BY DEF WorldShape
  <1>3. /\ streams'[s].sink = sink
        /\ \A t \in StreamIds \ {s} : streams'[t] = streams[t] /\ ports'[t] = ports[t]
    BY DEF WorldShape, StreamRecords
  <1>4. /\ placed' \subseteq placed \cup {s} /\ (sink = "phys" => s \notin placed')
        /\ sink # "phys" => sink = "remote"
    BY DEF Sinks
  <1>5. WorldShape'
    BY <1>1, <1>2, <1>3, <1>4 DEF WorldShape
  <1>6. Mixed' \subseteq Mixed \cup {s}
    BY <1>3, <1>4 DEF WorldShape, Mixed
  <1> QED
    BY <1>4, <1>5, <1>6 DEF Mixed

\* The streams, their links and places are as before: so are the stream lists of the invariant.
LEMMA SameWorld ==
    ASSUME PlaceInv, RouteInv', UNCHANGED <<streams, ports, placed>>,
           active' \in RoutesOrNone, journal' \in RoutesOrNone,
           mode' = "down" => active' = NoRoute, PlaceOK(call', active')
    PROVE  PlaceInv'
  <1>1. WorldShape' /\ RoutesKnown' /\ Mixed' = Mixed
    BY DEF PlaceInv, WorldShape, RoutesKnown, Mixed
  <1>2. StillRouted(active)' <=> StillRouted(active')
    BY DEF StillRouted, same_route_identity, Live, AppOf
  <1>3. ScriptShape(call)'
    BY DEF PlaceOK, ScriptShape, Restoring
  <1>4. MixShape(call)' /\ ReleaseShape(call, active)'
    BY <1>1, <1>2 DEF PlaceOK, MixShape, ReleaseShape
  <1> QED
    BY <1>1, <1>3, <1>4 DEF PlaceInv, PlaceOK

\* A call that returns; the streams heard on REMOTE_IN are at most one.
LEMMA ReturnPlace ==
    ASSUME PlaceInv, RouteInv', WorldShape', RoutesKnown', call' = NoCall,
           \A s, t \in Mixed' : s = t
    PROVE  PlaceInv'
  <1>1. PlaceOK(call, active)'
    BY DEF NoCall, PlaceOK, ScriptShape, MixShape, ReleaseShape, RoutesOrNone
  <1> QED
    BY <1>1 DEF PlaceInv

\* A call that goes on at a label that promises nothing of the places.
LEMMA QuietPlace ==
    ASSUME PlaceInv, RouteInv', WorldShape', RoutesKnown',
           call'.new \in RoutesOrNone, call'.old \in RoutesOrNone,
           call'.undo \in BOOLEAN, ~call'.undo,
           call'.pc \in {"persist", "persistSame", "routeOutputs", "undoOutputs", "clearUndo",
                         "clearEnd", "clearStale", "idle"},
           \A s, t \in Mixed' : s = t
    PROVE  PlaceInv'
  <1>1. PlaceOK(call, active)'
    BY DEF PlaceOK, ScriptShape, MixShape, ReleaseShape
  <1> QED
    BY <1>1 DEF PlaceInv

\* The parts of the invariant that every step starts from.
LEMMA PlaceParts ==
    ASSUME PlaceInv
    PROVE  /\ RouteInv /\ IsCall(call) /\ WorldShape /\ RoutesKnown
           /\ active \in RoutesOrNone /\ journal \in RoutesOrNone
           /\ call.new \in RoutesOrNone /\ call.old \in RoutesOrNone
           /\ call.undo \in BOOLEAN
           /\ \A s, t \in Mixed : s = t
  BY DEF PlaceInv, RouteInv, Agrees, RoutesKnown, PlaceOK, ScriptShape, MixShape

\* A jump keeps the other fields of a call.
LEMMA GotoFields ==
    ASSUME IsCall(call), NEW label
    PROVE  /\ Goto(label).undo = call.undo /\ Goto(label).script = call.script
           /\ Goto(label).faults = call.faults
  BY DEF IsCall, Goto

\* A failure is counted in a call, and in no other field.
LEMMA FailingFields ==
    ASSUME NEW c, IsCall(c)
    PROVE  Failing(c).undo = c.undo /\ Failing(c).script = c.script
  <1>1. CASE c = NoCall
    BY <1>1 DEF Failing
  <1>2. CASE c # NoCall
    BY <1>2 DEF Failing, IsCall
  <1> QED
    BY <1>1, <1>2

----------------------------------------------------------------------------
(* Every step keeps the streams in their places.                           *)

\* The calls begin.
LEMMA BeginsPlace ==
    PlaceInv /\ RouteInv' /\ (Refresh \/ (\E s \in StreamIds : ManualRoute(s)) \/ RestoreOnStop)
      => PlaceInv'
  <1> SUFFICES ASSUME PlaceInv, RouteInv',
                      Refresh \/ (\E s \in StreamIds : ManualRoute(s)) \/ RestoreOnStop
               PROVE  PlaceInv'
    OBVIOUS
  <1>1. /\ UNCHANGED <<streams, ports, placed>> /\ journal' = journal
        /\ mode' # "down" /\ active' \in RoutesOrNone
    BY PlaceParts DEF Refresh, ManualRoute, RestoreOnStop, CanCall, world, memory, RoutesOrNone
  <1>2. ASSUME PlaceOK(call', active') PROVE PlaceInv'
    BY <1>1, <1>2, SameWorld, PlaceParts
  <1>3. CASE call' = RestoreCall /\ active' = active
    BY <1>2, <1>3, RestoreCallPlace
  <1>4. CASE /\ active' = active /\ Conflicting = {}
             /\ \E s \in Candidates : call' = RouteCandidate(s)
    BY <1>2, <1>4, RouteCandidatePlace
  <1>5. CASE active' = active /\ Conflicting = {} /\ \E s : call' = KeepActive(s)
    BY <1>2, <1>5, KeepActivePlace
  <1>6. CASE /\ active' = active /\ StaleRemote # 0
             /\ call' = CallFor("moveStale", StaleRemote, NoRoute)
    <2>1. NewRoute(StaleRemote) \in Routes
      <3>1. StaleRemote \in Conflicting /\ classify_application(StaleRemote)
        BY <1>6, OnlyIn DEF StaleRemote
      <3>2. StaleRemote \in StreamIds /\ AppOf(StaleRemote) \in Apps
        BY <3>1 DEF Conflicting, Live, classify_application, AppOf, Apps
      <3> QED
        BY <1>6, <3>2 DEF NewRoute, Routes
    <2>2. /\ call'.pc = "moveStale" /\ call'.new \in Routes /\ call'.old = NoRoute
          /\ call'.undo \in BOOLEAN /\ ~call'.undo
      BY <1>6, <2>1, CallForShape, CallForFields
    <2>3. PlaceOK(call', active')
      BY <2>2, PlaceParts DEF PlaceOK, ScriptShape, MixShape, ReleaseShape, RoutesOrNone
    <2> QED
      BY <1>2, <2>3
  <1>7. CASE /\ active # NoRoute /\ active' = NoRoute /\ Conflicting = {}
             /\ ~\E s \in Candidates : same_route_identity(active, s)
             /\ call' = [CallFor("dropOutputs", Successor, active)
                            EXCEPT !.reused = active.sid \in Candidates]
    <2> DEFINE c == CallFor("dropOutputs", Successor, active)
    <2>1. /\ IsCall(c) /\ c.pc = "dropOutputs" /\ c.new = NewRoute(Successor)
          /\ c.old = active /\ c.undo \in BOOLEAN /\ ~c.undo
      BY CallForShape, CallForFields
    <2> HIDE DEF c
    <2>2. call' = [c EXCEPT !.reused = active.sid \in Candidates]
      BY <1>7 DEF c
    <2>3. /\ IsCall(call') /\ call'.pc = "dropOutputs" /\ call'.new = NewRoute(Successor)
          /\ call'.old = active /\ call'.undo \in BOOLEAN /\ ~call'.undo
      BY <2>1, <2>2 DEF IsCall
    <2>4. NewRoute(Successor) \in RoutesOrNone
      BY ChoicesAreCandidates, CandidateFacts, NewRouteFacts, PlaceParts DEF RoutesOrNone
    <2>5. Mixed = {}
      <3>1. \A t \in placed : same_route_identity(active, t) /\ t \in StreamIds
        BY <1>7, OnlyActiveIsMixed, PlaceParts DEF WorldShape
      <3>2. active \in Routes
        BY <1>7, PlaceParts DEF RoutesOrNone
      <3> QED
        BY <1>7, <3>1, <3>2, ActiveIsCandidate DEF Mixed
    <2>6. PlaceOK(call', NoRoute)
      BY <2>3, <2>4, <2>5, DropOutputsPlace, PlaceParts DEF RoutesOrNone
    <2> QED
      BY <1>2, <1>7, <2>6
  <1>8. CASE Refresh
    BY <1>3, <1>4, <1>5, <1>6, <1>7, <1>8, ChoicesAreCandidates DEF Refresh, Continue, memory
  <1>9. CASE \E s \in StreamIds : ManualRoute(s)
    BY <1>4, <1>9 DEF ManualRoute, Continue, memory
  <1>10. CASE RestoreOnStop
    BY <1>3, <1>10 DEF RestoreOnStop, Continue, memory
  <1> QED
    BY <1>8, <1>9, <1>10

\* The commands that are left of a script, after its head.
LEMMA RestoreScriptParts ==
    ASSUME NEW script \in RestoreScripts
    PROVE  /\ Len(script) \in 1..4
           /\ Len(script) = 1 => script = <<Unlink("rR")>> /\ Head(script) = Unlink("rR")
           /\ Len(script) # 1 => Tail(script) \in RestoreScripts
           /\ Tail(script) = <<Unlink("rR")>> => Head(script) = Unlink("rL")
           /\ Head(script).add => Head(script).port \in {"oL", "oR"}
           /\ RestoreUndo[5 - Len(script)] \in {<<>>, <<Unlink("oL")>>}
  <1> DEFINE s3 == <<Link("oR"), Unlink("rL"), Unlink("rR")>>
             s2 == <<Unlink("rL"), Unlink("rR")>>
             s1 == <<Unlink("rR")>>
  <1>1. /\ Len(RestoreScript) = 4 /\ Head(RestoreScript) = Link("oL")
        /\ Tail(RestoreScript) = s3
    BY DEF RestoreScript
  <1>2. Len(s3) = 3 /\ Head(s3) = Link("oR") /\ Tail(s3) = s2
    OBVIOUS
  <1>3. Len(s2) = 2 /\ Head(s2) = Unlink("rL") /\ Tail(s2) = s1
    OBVIOUS
  <1>4. Len(s1) = 1 /\ Head(s1) = Unlink("rR") /\ Tail(s1) = <<>>
    OBVIOUS
  <1>5. s3 # s1 /\ s2 # s1 /\ <<>> # s1
    BY <1>2, <1>3, <1>4
  <1>6. /\ RestoreUndo[1] = <<>> /\ RestoreUndo[2] = <<Unlink("oL")>>
        /\ RestoreUndo[3] = <<>> /\ RestoreUndo[4] = <<>>
    BY DEF RestoreUndo
  <1>7. /\ Link("oL").add /\ Link("oL").port = "oL" /\ Link("oR").add /\ Link("oR").port = "oR"
        /\ ~Unlink("rL").add /\ ~Unlink("rR").add
    BY DEF Link, Unlink
  <1> HIDE DEF s1, s2, s3
  <1>8. RestoreScripts = {RestoreScript, s3, s2, s1} /\ s1 = <<Unlink("rR")>>
    BY DEF RestoreScripts, s1, s2, s3
  <1>9. CASE script = RestoreScript
    <2>1. 5 - Len(script) = 1 /\ Len(script) # 1 /\ Len(script) \in 1..4
      <3>1. Len(script) = 4
        BY <1>1, <1>9, Zenon
      <3> QED
        BY <3>1
    <2>2. Tail(script) \in RestoreScripts /\ Tail(script) # <<Unlink("rR")>>
      BY <1>1, <1>5, <1>8, <1>9
    <2>3. Head(script).add => Head(script).port \in {"oL", "oR"}
      BY <1>1, <1>7, <1>9
    <2> QED
      BY <1>6, <2>1, <2>2, <2>3
  <1>10. CASE script = s3
    <2>1. 5 - Len(script) = 2 /\ Len(script) # 1 /\ Len(script) \in 1..4
      <3>1. Len(script) = 3
        BY <1>2, <1>10, Zenon
      <3> QED
        BY <3>1
    <2>2. Tail(script) \in RestoreScripts /\ Tail(script) # <<Unlink("rR")>>
      BY <1>2, <1>5, <1>8, <1>10
    <2>3. Head(script).add => Head(script).port \in {"oL", "oR"}
      BY <1>2, <1>7, <1>10
    <2> QED
      BY <1>6, <2>1, <2>2, <2>3
  <1>11. CASE script = s2
    BY <1>3, <1>6, <1>7, <1>8, <1>11
  <1>12. CASE script = s1
    BY <1>4, <1>5, <1>6, <1>7, <1>8, <1>12
  <1> QED
    BY <1>8, <1>9, <1>10, <1>11, <1>12

\* The rollback of such a script is one command.
LEMMA RestoreUndoParts ==
    LET script == <<Unlink("oL")>>
    IN  Len(script) = 1 /\ Head(script) = Unlink("oL") /\ ~Head(script).add
  BY DEF Unlink

\* A link command changes the links of its stream alone.
LEMMA RelinkFacts ==
    ASSUME WorldShape, NEW s \in StreamIds, Relink(s)
    PROVE  /\ WorldShape' /\ UNCHANGED <<streams, placed>>
           /\ \A t \in StreamIds \ {s} : ports'[t] = ports[t]
           /\ ports'[s] = IF Head(call.script).add THEN ports[s] \cup {Head(call.script).port}
                          ELSE ports[s] \ {Head(call.script).port}
           /\ Mixed' \subseteq Mixed \cup {s}
  <1> DEFINE c == Head(call.script)
  <1>1. /\ UNCHANGED <<streams, placed>>
        /\ ports' = [ports EXCEPT ![s] = IF c.add THEN ports[s] \cup {c.port}
                                         ELSE ports[s] \ {c.port}]
    BY DEF Relink
  <1> HIDE DEF c
  <1>2. /\ \A t \in StreamIds \ {s} : ports'[t] = ports[t]
        /\ ports'[s] = IF c.add THEN ports[s] \cup {c.port} ELSE ports[s] \ {c.port}
    BY <1>1 DEF WorldShape
  <1>3. ports' = [t \in StreamIds |-> ports'[t]]
    BY <1>1 DEF WorldShape
  <1>4. WorldShape'
    BY <1>1, <1>3 DEF WorldShape
  <1>5. Mixed' \subseteq Mixed \cup {s}
    BY <1>1, <1>2 DEF WorldShape, Mixed
  <1> QED
    BY <1>1, <1>2, <1>4, <1>5 DEF c

\* The script that takes the links of a stream back: it adds no link to REMOTE_IN, and when
\* it is done the stream has none.
LEMMA RestoreLinks ==
    ASSUME PlaceInv, NEW s \in StreamIds, Restoring(call, s), NEW done, NEW failed,
           IsCall(done), IsCall(failed), RunLinks(s, RestoreUndo, done, failed)
    PROVE  /\ WorldShape' /\ UNCHANGED <<streams, placed>> /\ Mixed' \subseteq Mixed
           /\ ports'[s] \cap {"rL", "rR"} \subseteq ports[s]
           /\ \/ call' = done /\ ports'[s] \cap {"rL", "rR"} = {}
              \/ call' = failed \/ call' = Failing(failed)
              \/ /\ IsCall(call') /\ call'.pc = call.pc /\ call'.new = call.new
                 /\ call'.old = call.old /\ call'.undo \in BOOLEAN /\ Restoring(call, s)'
  <1>1. IsCall(call) /\ WorldShape /\ call.undo \in BOOLEAN
    BY PlaceParts
  <1>2. CASE ~call.undo
    <2>1. call.script \in RestoreScripts
      BY <1>2 DEF Restoring
    <2> DEFINE h == Head(call.script)
    <2>2. h.add => h.port \in {"oL", "oR"}
      BY <2>1, RestoreScriptParts
    <2>3. ASSUME Relink(s)
          PROVE  /\ WorldShape' /\ UNCHANGED <<streams, placed>>
                 /\ \A t \in StreamIds \ {s} : ports'[t] = ports[t]
                 /\ ports'[s] = IF h.add THEN ports[s] \cup {h.port} ELSE ports[s] \ {h.port}
                 /\ Mixed' \subseteq Mixed /\ ports'[s] \cap {"rL", "rR"} \subseteq ports[s]
      <3>1. /\ WorldShape' /\ UNCHANGED <<streams, placed>>
            /\ \A t \in StreamIds \ {s} : ports'[t] = ports[t]
            /\ ports'[s] = IF h.add THEN ports[s] \cup {h.port} ELSE ports[s] \ {h.port}
        BY <1>1, <2>3, RelinkFacts
      <3>2. Mixed' \subseteq Mixed
        BY <1>1, <2>2, <3>1 DEF Mixed, WorldShape
      <3>3. ports'[s] \cap {"rL", "rR"} \subseteq ports[s]
        BY <2>2, <3>1
      <3> QED
        BY <3>1, <3>2, <3>3
    <2>4. CASE Relink(s) /\ call' = AfterLink(done)
      <3>1. /\ WorldShape' /\ UNCHANGED <<streams, placed>>
            /\ ports'[s] = IF h.add THEN ports[s] \cup {h.port} ELSE ports[s] \ {h.port}
        BY <2>4, <2>3
      <3>2. Mixed' \subseteq Mixed /\ ports'[s] \cap {"rL", "rR"} \subseteq ports[s]
        BY <2>4, <2>3
      <3>3. CASE Len(call.script) = 1
        <4>1. call' = done
          BY <2>4, <3>3 DEF AfterLink
        <4>2. h = Unlink("rR") /\ "rL" \notin ports[s]
          BY <1>2, <2>1, <3>3, RestoreScriptParts DEF Restoring
        <4>3. ports'[s] = ports[s] \ {"rR"}
          BY <3>1, <4>2 DEF Unlink
        <4> QED
          BY <3>1, <3>2, <4>1, <4>2, <4>3
      <3>4. CASE Len(call.script) # 1
        <4>1. call' = [call EXCEPT !.script = Tail(call.script)]
          BY <2>4, <3>4 DEF AfterLink
        <4>2. /\ IsCall(call') /\ call'.pc = call.pc /\ call'.new = call.new
              /\ call'.old = call.old /\ call'.undo = call.undo
              /\ call'.script = Tail(call.script)
          BY <1>1, <4>1 DEF IsCall
        <4>3. /\ call'.script \in RestoreScripts
              /\ call'.script = <<Unlink("rR")>> => h = Unlink("rL")
          BY <2>1, <3>4, <4>2, RestoreScriptParts
        <4>4. h = Unlink("rL") => "rL" \notin ports'[s]
          BY <3>1 DEF Unlink
        <4>5. Restoring(call, s)'
          BY <1>2, <4>2, <4>3, <4>4 DEF Restoring
        <4> QED
          BY <1>1, <3>1, <3>2, <4>2, <4>5
      <3> QED
        BY <3>3, <3>4
    <2>5. CASE /\ UNCHANGED world \/ Relink(s)
               /\ LET back == RestoreUndo[5 - Len(call.script)]
                  IN  call' = Failing(IF back = <<>> THEN failed
                                      ELSE [call EXCEPT !.script = back, !.undo = TRUE])
      <3> DEFINE back == RestoreUndo[5 - Len(call.script)]
                 c == [call EXCEPT !.script = back, !.undo = TRUE]
      <3>1. /\ WorldShape' /\ UNCHANGED <<streams, placed>> /\ Mixed' \subseteq Mixed
            /\ ports'[s] \cap {"rL", "rR"} \subseteq ports[s]
        <4>1. CASE UNCHANGED world
          BY <1>1, <4>1 DEF world, WorldShape, Mixed
        <4>2. CASE Relink(s)
          BY <2>3, <4>2
        <4> QED
          BY <2>5, <4>1, <4>2
      <3>2. back \in {<<>>, <<Unlink("oL")>>}
        BY <2>1, RestoreScriptParts
      <3>3. CASE back = <<>>
        BY <2>5, <3>1, <3>3
      <3>4. CASE back # <<>>
        <4>1. call' = Failing(c)
          BY <2>5, <3>4
        <4>2. /\ IsCall(c) /\ c.pc = call.pc /\ c.new = call.new /\ c.old = call.old
              /\ c.undo = TRUE /\ c.script = back
          BY <1>1 DEF IsCall
        <4> HIDE DEF c
        <4>3. /\ IsCall(call') /\ call'.pc = call.pc /\ call'.new = call.new
              /\ call'.old = call.old /\ call'.undo = TRUE /\ call'.script = back
          BY <4>1, <4>2, FailingShape, FailingFields
        <4>4. Restoring(call, s)' /\ call'.undo \in BOOLEAN
          BY <3>2, <3>4, <4>3 DEF Restoring
        <4> QED
          BY <3>1, <4>3, <4>4
      <3> QED
        BY <3>3, <3>4
    <2> QED
      BY <1>2, <2>4, <2>5 DEF RunLinks, LinkDone, LinkRefused, LinkTimedOut, Continue
  <1>3. CASE call.undo
    <2>1. call.script = <<Unlink("oL")>>
      BY <1>3 DEF Restoring
    <2>2. Len(call.script) = 1 /\ Head(call.script) = Unlink("oL")
      BY <2>1, RestoreUndoParts
    <2>3. call' = failed /\ (Relink(s) \/ UNCHANGED world)
      BY <1>3, <2>2 DEF RunLinks, LinkDone, LinkRefused, AfterLink, Continue
    <2>4. CASE Relink(s)
      <3>1. /\ WorldShape' /\ UNCHANGED <<streams, placed>>
            /\ \A t \in StreamIds \ {s} : ports'[t] = ports[t]
            /\ ports'[s] = ports[s] \ {"oL"}
        <4>1. ~Head(call.script).add /\ Head(call.script).port = "oL"
          BY <2>2 DEF Unlink
        <4> QED
          BY <1>1, <2>2, <2>4, <4>1, RelinkFacts
      <3>2. Mixed' \subseteq Mixed /\ ports'[s] \cap {"rL", "rR"} \subseteq ports[s]
        BY <1>1, <3>1 DEF Mixed, WorldShape
      <3> QED
        BY <2>3, <3>1, <3>2
    <2>5. CASE UNCHANGED world
      BY <1>1, <2>3, <2>5 DEF world, WorldShape, Mixed
    <2> QED
      BY <2>3, <2>4, <2>5
  <1> QED
    BY <1>1, <1>2, <1>3

\* restore_route of the route given up.
LEMMA RestoreOldPlaces == PlaceInv /\ RouteInv' /\ RestoreOld => PlaceInv'
  <1> SUFFICES ASSUME PlaceInv, RouteInv', RestoreOld PROVE PlaceInv'
    OBVIOUS
  <1>1. /\ call.pc = "restoreOld" /\ mode' = mode /\ active' = active /\ journal' = journal
    BY DEF RestoreOld, At, memory
  <1>2. /\ IsCall(call) /\ WorldShape /\ RoutesKnown /\ call.old = active
        /\ active \in Routes /\ call.new \in RoutesOrNone /\ call.undo \in BOOLEAN
        /\ (\A s, t \in Mixed : s = t)
        /\ call.new # NoRoute => Mixed \subseteq {active.sid}
    BY <1>1, PlaceParts DEF PlaceInv, PlaceOK, ReleaseShape, MixShape, RoutesOrNone
  <1>3. active.sid \in StreamIds /\ active.method \in {"PulseMove", "PipeWireLinks"}
    BY <1>2 DEF Routes
  <1>4. RoutesKnown'
    BY <1>1, <1>2 DEF RoutesKnown
  <1> DEFINE next == Goto("dropOutputs")
  <1>5. /\ IsCall(next) /\ next.pc = "dropOutputs" /\ next.new = call.new /\ next.old = active
        /\ next.undo = call.undo
    BY <1>2, GotoShape, GotoFields
  <1> HIDE DEF next
  <1>6. ASSUME call' = next, ~call.undo, WorldShape', Mixed' \subseteq Mixed,
               active.sid \notin Mixed', ~StillRouted(active)'
        PROVE  PlaceInv'
    <2>1. call.new # NoRoute => Mixed' = {}
      BY <1>2, <1>6
    <2>2. MixShape(call)'
      BY <1>2, <1>5, <1>6, <2>1 DEF MixShape
    <2>3. ScriptShape(call)' /\ ReleaseShape(call, active)'
      BY <1>1, <1>2, <1>5, <1>6 DEF ScriptShape, ReleaseShape
    <2> QED
      BY <1>1, <1>2, <1>4, <1>5, <1>6, <2>2, <2>3 DEF PlaceInv, PlaceOK, RoutesOrNone
  <1>7. CASE active.method = "PulseMove"
    <2>1. ~call.undo
      BY <1>1, <1>2, <1>7 DEF PlaceInv, PlaceOK, ScriptShape
    <2>2. CASE MoveRefused(active.sid) /\ call' = NoCall
      <3>1. WorldShape' /\ Mixed' = Mixed
        BY <1>2, <2>2 DEF MoveRefused, world, WorldShape, Mixed
      <3> QED
        BY <1>2, <1>4, <2>2, <3>1, ReturnPlace
    <2>3. CASE PutStream(active.sid, "phys")
      <3>1. WorldShape' /\ active.sid \notin placed' /\ Mixed' \subseteq Mixed
        BY <1>2, <1>3, <2>3, PutStreamFacts DEF Sinks
      <3>2. active.sid \notin Mixed' /\ ~StillRouted(active)'
        BY <1>1, <1>7, <3>1 DEF Mixed, StillRouted, same_route_identity
      <3>3. CASE call' = NoCall
        BY <1>2, <1>4, <3>1, <3>3, ReturnPlace
      <3>4. CASE call' = next
        BY <1>6, <2>1, <3>1, <3>2, <3>4
      <3> QED
        BY <1>2, <1>7, <2>3, <3>3, <3>4 DEF RestoreOld, Continue, Return, next
    <2> QED
      BY <1>2, <1>7, <2>2, <2>3 DEF RestoreOld, MoveDone, MoveTimedOut, Continue, Return
  <1>8. CASE active.method = "PipeWireLinks"
    <2>1. Restoring(call, active.sid)
      BY <1>1, <1>2, <1>8 DEF PlaceInv, PlaceOK, ScriptShape
    <2>2. RunLinks(active.sid, RestoreUndo, next, NoCall)
      BY <1>2, <1>8 DEF RestoreOld, next
    <2>3. /\ WorldShape' /\ UNCHANGED <<streams, placed>> /\ Mixed' \subseteq Mixed
          /\ \/ call' = next /\ ports'[active.sid] \cap {"rL", "rR"} = {}
             \/ call' = NoCall \/ call' = Failing(NoCall)
             \/ /\ IsCall(call') /\ call'.pc = call.pc /\ call'.new = call.new
                /\ call'.old = call.old /\ call'.undo \in BOOLEAN
                /\ Restoring(call, active.sid)'
      <3>1. PICK s \in StreamIds : s = active.sid
        BY <1>3
      <3>2. /\ WorldShape' /\ UNCHANGED <<streams, placed>> /\ Mixed' \subseteq Mixed
            /\ \/ call' = next /\ ports'[s] \cap {"rL", "rR"} = {}
               \/ call' = NoCall \/ call' = Failing(NoCall)
               \/ /\ IsCall(call') /\ call'.pc = call.pc /\ call'.new = call.new
                  /\ call'.old = call.old /\ call'.undo \in BOOLEAN /\ Restoring(call, s)'
        BY <1>5, <2>1, <2>2, <3>1, RestoreLinks, NoCallAgrees
      <3> QED
        BY <1>1, <3>1, <3>2 DEF Restoring
    <2>4. CASE call' = NoCall \/ call' = Failing(NoCall)
      BY <1>2, <1>4, <2>3, <2>4, ReturnPlace DEF Failing
    <2>5. CASE call' = next /\ ports'[active.sid] \cap {"rL", "rR"} = {}
      <3>1. active.sid \notin Mixed' /\ ~StillRouted(active)'
        BY <1>1, <1>8, <2>5 DEF Mixed, StillRouted, same_route_identity
      <3>2. CASE ~call.undo
        BY <1>6, <2>3, <2>5, <3>1, <3>2
      <3>3. CASE call.undo
        <4>1. call.script = <<Unlink("oL")>>
          BY <2>1, <3>3 DEF Restoring
        <4>2. Len(call.script) = 1
          BY <4>1, RestoreUndoParts
        <4>3. call' = NoCall
          BY <2>2, <3>3, <4>2 DEF RunLinks, AfterLink, Continue
        <4> QED
          BY <1>2, <1>4, <2>3, <4>3, ReturnPlace
      <3> QED
        BY <3>2, <3>3
    <2>6. CASE /\ IsCall(call') /\ call'.pc = call.pc /\ call'.new = call.new
               /\ call'.old = call.old /\ call'.undo \in BOOLEAN
               /\ Restoring(call, active.sid)'
      <3>1. call'.old = active'
        BY <1>1, <1>2, <2>6
      <3>2. ScriptShape(call)'
        BY <1>1, <1>8, <2>6, <3>1 DEF ScriptShape, Restoring
      <3>3. ReleaseShape(call, active)'
        BY <1>1, <1>8, <2>6, <3>1 DEF ReleaseShape, NoRoute
      <3>4. MixShape(call)'
        BY <1>1, <1>2, <2>3, <2>6 DEF MixShape
      <3> QED
        BY <1>1, <1>2, <1>4, <2>3, <2>6, <3>2, <3>3, <3>4 DEF PlaceInv, PlaceOK, RoutesOrNone
    <2> QED
      BY <2>3, <2>4, <2>5, <2>6
  <1> QED
    BY <1>3, <1>7, <1>8

\* The captures of the route given up, and its journal.
LEMMA GiveUpPlaces ==
    PlaceInv /\ RouteInv' /\ (DropOutput \/ OutputsDropped \/ ClearOld \/ ClearLast) => PlaceInv'
  <1> SUFFICES ASSUME PlaceInv, RouteInv',
                      DropOutput \/ OutputsDropped \/ ClearOld \/ ClearLast
               PROVE  PlaceInv'
    OBVIOUS
  <1>1. /\ UNCHANGED <<streams, ports, placed>> /\ mode' = mode
        /\ active' \in {active, NoRoute} /\ journal' \in {journal, NoRoute}
    BY DEF DropOutput, OutputsDropped, ClearOld, ClearLast, MoveCapture, MoveCaptureFails,
           world, memory,
           JournalRemoved, JournalKept
  <1>2. /\ IsCall(call) /\ RoutesKnown /\ call.new \in RoutesOrNone /\ call.old \in RoutesOrNone
        /\ call.undo \in BOOLEAN /\ (\A s, t \in Mixed : s = t)
    BY PlaceParts
  <1>3. /\ active' \in RoutesOrNone /\ journal' \in RoutesOrNone
        /\ mode' = "down" => active' = NoRoute
    BY <1>1, <1>2 DEF RoutesKnown, RoutesOrNone
  <1>4. ASSUME PlaceOK(call', active') PROVE PlaceInv'
    BY <1>1, <1>3, <1>4, SameWorld
  <1>5. CASE call' = NoCall
    BY <1>2, <1>4, <1>5, NoCallPlace
  <1>6. CASE DropOutput /\ call' # NoCall
    <2>1. PICK m : call' = [call EXCEPT !.moved = m]
      BY <1>6 DEF DropOutput, Continue, Return
    <2>2. /\ call.pc = "dropOutputs" /\ call'.pc = call.pc /\ call'.new = call.new
          /\ call'.old = call.old /\ call'.undo = call.undo /\ active' = active
      BY <1>2, <1>6, <2>1 DEF IsCall, DropOutput, At, memory
    <2>3. PlaceOK(call', active')
      BY <1>2, <2>2 DEF PlaceInv, PlaceOK, ScriptShape, MixShape, ReleaseShape
    <2> QED
      BY <1>4, <2>3
  <1>7. CASE OutputsDropped
    <2>1. /\ call.pc = "dropOutputs" /\ active' = NoRoute
          /\ call' = Goto("clearEnd") \/ call' = [Goto("clearOld") EXCEPT !.moved = {}]
      BY <1>7 DEF OutputsDropped, At, Continue
    <2>2. /\ call'.pc \in {"clearEnd", "clearOld"} /\ call'.new = call.new
          /\ call'.old = call.old /\ call'.undo = call.undo
      BY <1>2, <2>1 DEF IsCall, Goto
    <2>3. PlaceOK(call', active')
      BY <1>2, <2>1, <2>2 DEF PlaceInv, PlaceOK, ScriptShape, MixShape, ReleaseShape
    <2> QED
      BY <1>4, <2>3
  <1>8. CASE ClearOld /\ call' # NoCall
    <2>1. call.pc = "clearOld" /\ call' = [Goto("move") EXCEPT !.script = <<>>]
      BY <1>8 DEF ClearOld, At, Continue, Return
    <2>2. /\ call'.pc = "move" /\ call'.new = call.new
          /\ call'.old = call.old /\ call'.undo = call.undo
      BY <1>2, <2>1 DEF IsCall, Goto
    <2>3. PlaceOK(call', active')
      BY <1>2, <2>1, <2>2 DEF PlaceInv, PlaceOK, ScriptShape, MixShape, ReleaseShape
    <2> QED
      BY <1>4, <2>3
  <1> QED
    BY <1>5, <1>6, <1>7, <1>8 DEF ClearLast, Return

\* A stream is moved to REMOTE_IN when none is heard there.
LEMMA MoveNewPlaces == PlaceInv /\ RouteInv' /\ MoveNew => PlaceInv'
  <1> SUFFICES ASSUME PlaceInv, RouteInv', MoveNew PROVE PlaceInv'
    OBVIOUS
  <1>1. /\ call.pc = "move" /\ mode' = mode /\ active' = active /\ journal' = journal
    BY DEF MoveNew, At
  <1>2. /\ IsCall(call) /\ WorldShape /\ RoutesKnown /\ call.old \in RoutesOrNone
        /\ call.new \in Routes /\ Mixed = {} /\ call.undo \in BOOLEAN /\ ~call.undo
    BY <1>1, PlaceParts
       DEF PlaceInv, PlaceOK, MixShape, ScriptShape, RouteInv, Agrees, RoutesOrNone
  <1>3. RoutesKnown' /\ call.new.sid \in StreamIds
    BY <1>1, <1>2 DEF RoutesKnown, Routes
  <1>4. WorldShape' /\ Mixed' \subseteq {call.new.sid}
    <2>1. CASE UNCHANGED world
      BY <1>2, <2>1 DEF world, WorldShape, Mixed
    <2>2. CASE PutStream(call.new.sid, "remote")
      BY <1>2, <1>3, <2>2, PutStreamFacts DEF Sinks
    <2> QED
      BY <2>1, <2>2 DEF MoveNew, MoveDone, MoveRefused, MoveTimedOut
  <1>5. \A s, t \in Mixed' : s = t
    BY <1>4
  <1>6. \/ call' = NoCall \/ call' = Goto("persist")
        \/ call' = [Goto("link") EXCEPT !.script = RouteScript]
    BY DEF MoveNew, Continue, Return
  <1>7. CASE call' = NoCall
    BY <1>3, <1>4, <1>5, <1>7, ReturnPlace
  <1>8. CASE call' = Goto("persist")
    BY <1>2, <1>3, <1>4, <1>5, <1>8, GotoShape, GotoFields, QuietPlace DEF RoutesOrNone
  <1>9. CASE call' = [Goto("link") EXCEPT !.script = RouteScript]
    <2>1. /\ call'.pc = "link" /\ call'.new = call.new /\ call'.old = call.old
          /\ call'.undo = call.undo
      BY <1>2, <1>9 DEF IsCall, Goto
    <2>2. PlaceOK(call, active)'
      BY <1>2, <1>4, <1>5, <2>1
         DEF PlaceOK, ScriptShape, MixShape, ReleaseShape, RoutesOrNone
    <2> QED
      BY <1>3, <1>4, <2>2 DEF PlaceInv
  <1> QED
    BY <1>6, <1>7, <1>8, <1>9

\* A script that runs leaves the other streams alone.
LEMMA LinksOfOne ==
    ASSUME WorldShape, NEW s \in StreamIds, NEW rollback, NEW done, NEW failed,
           RunLinks(s, rollback, done, failed)
    PROVE  /\ WorldShape' /\ UNCHANGED <<streams, placed>> /\ Mixed' \subseteq Mixed \cup {s}
           /\ \A t \in StreamIds \ {s} : ports'[t] = ports[t]
           /\ \E p : ports' = [ports EXCEPT ![s] = p]
           /\ late' \in {late, late \cup {s}}
  <1>1. UNCHANGED world \/ Relink(s)
    BY DEF RunLinks, LinkDone, LinkRefused, LinkTimedOut
  <1>2. UNCHANGED <<streams, placed>> /\ \E p : ports' = [ports EXCEPT ![s] = p]
    <2>1. CASE UNCHANGED world
      <3>1. ports = [ports EXCEPT ![s] = ports[s]]
        BY DEF WorldShape
      <3> QED
        BY <2>1, <3>1 DEF world
    <2>2. CASE Relink(s)
      BY <2>2 DEF Relink
    <2> QED
      BY <1>1, <2>1, <2>2
  <1>3. \A t \in StreamIds \ {s} : ports'[t] = ports[t]
    BY <1>2 DEF WorldShape
  <1>4. WorldShape'
    BY <1>2 DEF WorldShape
  <1>5. late' \in {late, late \cup {s}}
    BY DEF RunLinks, LinkDone, LinkRefused, LinkTimedOut, world
  <1>6. Mixed' \subseteq Mixed \cup {s}
    BY <1>2, <1>3 DEF WorldShape, Mixed
  <1> QED
    BY <1>2, <1>3, <1>4, <1>5, <1>6

\* The links of a new route: no other stream is heard on REMOTE_IN meanwhile.
LEMMA LinkNewPlaces == PlaceInv /\ RouteInv' /\ LinkNew => PlaceInv'
  <1> SUFFICES ASSUME PlaceInv, RouteInv', LinkNew PROVE PlaceInv'
    OBVIOUS
  <1> DEFINE done == [Goto("persist") EXCEPT !.new.method = "PipeWireLinks"]
  <1>1. /\ call.pc = "link" /\ mode' = mode /\ active' = active /\ journal' = journal
        /\ RunLinks(call.new.sid, RouteUndo, done, NoCall)
    BY DEF LinkNew, At
  <1>2. /\ IsCall(call) /\ WorldShape /\ RoutesKnown /\ call.old \in RoutesOrNone
        /\ call.new \in Routes /\ Mixed \subseteq {call.new.sid} /\ call.undo \in BOOLEAN
    BY <1>1, PlaceParts
       DEF PlaceInv, PlaceOK, MixShape, RouteInv, Agrees, RoutesOrNone
  <1>3. RoutesKnown' /\ call.new.sid \in StreamIds
    BY <1>1, <1>2 DEF RoutesKnown, Routes
  <1>4. WorldShape' /\ Mixed' \subseteq {call.new.sid}
    BY <1>1, <1>2, <1>3, LinksOfOne
  <1>5. \A s, t \in Mixed' : s = t
    BY <1>4
  <1>6. /\ IsCall(done) /\ done.pc = "persist" /\ done.new \in Routes /\ done.old = call.old
        /\ done.undo = call.undo
    <2>1. /\ IsCall(Goto("persist")) /\ Goto("persist").pc = "persist"
          /\ Goto("persist").new = call.new /\ Goto("persist").old = call.old
          /\ Goto("persist").undo = call.undo
      BY <1>2, GotoShape, GotoFields
    <2> DEFINE g == Goto("persist")
    <2> HIDE DEF g
    <2>2. done = [g EXCEPT !.new = [g.new EXCEPT !.method = "PipeWireLinks"]]
      <3>1. IsCall(g)
        BY <2>1 DEF g
      <3> QED
        BY <3>1 DEF g, IsCall
    <2>3. [call.new EXCEPT !.method = "PipeWireLinks"] \in Routes
      BY <1>2 DEF Routes
    <2>4. IsRoute([call.new EXCEPT !.method = "PipeWireLinks"])
      BY <2>3 DEF Routes, IsRoute
    <2>5. /\ IsCall(g) /\ g.pc = "persist" /\ g.new = call.new /\ g.old = call.old
          /\ g.undo = call.undo
      BY <2>1 DEF g
    <2> HIDE DEF done
    <2>6. /\ done.pc = g.pc /\ done.old = g.old /\ done.undo = g.undo
          /\ done.new = [call.new EXCEPT !.method = "PipeWireLinks"]
      BY <2>2, <2>5 DEF IsCall
    <2>7. IsCall(done)
      BY <2>2, <2>4, <2>5, <2>6 DEF IsCall
    <2> QED
      BY <2>3, <2>5, <2>6, <2>7
  <1> HIDE DEF done
  <1>7. CASE call' = NoCall
    BY <1>3, <1>4, <1>5, <1>7, ReturnPlace
  <1>8. CASE ~call.undo /\ call' = done
    BY <1>2, <1>3, <1>4, <1>5, <1>6, <1>8, QuietPlace DEF RoutesOrNone
  <1>9. CASE /\ call'.pc = "link" /\ call'.new = call.new /\ call'.old = call.old
             /\ call'.undo \in BOOLEAN
    <2>1. PlaceOK(call, active)'
      BY <1>2, <1>4, <1>5, <1>9
         DEF PlaceOK, ScriptShape, MixShape, ReleaseShape, RoutesOrNone
    <2> QED
      BY <1>3, <1>4, <2>1 DEF PlaceInv
  <1>10. ASSUME NEW script PROVE
              /\ [call EXCEPT !.script = script].pc = call.pc
              /\ [call EXCEPT !.script = script].new = call.new
              /\ [call EXCEPT !.script = script].old = call.old
              /\ [call EXCEPT !.script = script].undo = call.undo
    BY <1>2 DEF IsCall
  <1>11. CASE \E c \in {done, NoCall} : call' = AfterLink(c) /\ (c = done => ~call.undo)
    BY <1>1, <1>2, <1>7, <1>8, <1>9, <1>10, <1>11 DEF AfterLink
  <1>12. CASE \E back : call' = Failing(IF back = <<>> THEN NoCall
                                 ELSE [call EXCEPT !.script = back, !.undo = TRUE])
    <2>1. PICK back : call' = Failing(IF back = <<>> THEN NoCall
                                 ELSE [call EXCEPT !.script = back, !.undo = TRUE])
      BY <1>12
    <2> DEFINE c == [call EXCEPT !.script = back, !.undo = TRUE]
    <2>2. /\ IsCall(c) /\ c.pc = call.pc /\ c.new = call.new /\ c.old = call.old
          /\ c.undo = TRUE
      BY <1>2 DEF IsCall
    <2> HIDE DEF c
    <2>3. CASE call' = Failing(NoCall)
      BY <1>7, <2>3 DEF Failing
    <2>4. CASE call' = Failing(c)
      BY <1>1, <1>9, <2>2, <2>4, FailingShape, FailingFields
    <2> QED
      BY <2>1, <2>3, <2>4 DEF c
  <1> QED
    <2>1. CASE ~call.undo /\ call' = AfterLink(done)
      BY <1>11, <2>1
    <2>2. CASE call.undo /\ call' = AfterLink(NoCall)
      <3>1. CASE NoCall = done
        BY <1>6, <3>1 DEF NoCall
      <3> QED
        BY <1>11, <2>2, <3>1
    <2>3. CASE \E back : call' = Failing(IF back = <<>> THEN NoCall
                                 ELSE [call EXCEPT !.script = back, !.undo = TRUE])
      BY <1>12, <2>3
    <2> QED
      BY <1>1, <2>1, <2>2, <2>3 DEF RunLinks, Continue

\* The active stream is moved back to REMOTE_IN, where no other is.
LEMMA MoveAgainPlaces == PlaceInv /\ RouteInv' /\ MoveAgain => PlaceInv'
  <1> SUFFICES ASSUME PlaceInv, RouteInv', MoveAgain PROVE PlaceInv'
    OBVIOUS
  <1>1. /\ call.pc = "moveAgain" /\ mode' = mode /\ active' = active /\ journal' = journal
        /\ call' = NoCall \/ call' = Goto("persistSame")
    BY DEF MoveAgain, At, memory, Continue, Return
  <1>2. /\ IsCall(call) /\ WorldShape /\ RoutesKnown /\ call.old \in RoutesOrNone
        /\ call.new \in RoutesOrNone /\ Mixed \subseteq {call.old.sid}
        /\ call.undo \in BOOLEAN /\ ~call.undo
    BY <1>1, PlaceParts DEF PlaceInv, PlaceOK, MixShape, ScriptShape
  <1>3. WorldShape' /\ Mixed' \subseteq {call.old.sid}
    <2>1. CASE UNCHANGED world
      BY <1>2, <2>1 DEF world, WorldShape, Mixed
    <2>2. CASE call.old.sid \in Live /\ PutStream(call.old.sid, "remote")
      BY <1>2, <2>2, PutStreamFacts DEF Sinks, Live
    <2> QED
      BY <2>1, <2>2 DEF MoveAgain, MoveDone, MoveRefused, MoveTimedOut
  <1>4. RoutesKnown' /\ \A s, t \in Mixed' : s = t
    BY <1>1, <1>2, <1>3 DEF RoutesKnown
  <1>5. CASE call' = NoCall
    BY <1>3, <1>4, <1>5, ReturnPlace
  <1>6. CASE call' = Goto("persistSame")
    BY <1>2, <1>3, <1>4, <1>6, GotoShape, GotoFields, QuietPlace
  <1> QED
    BY <1>1, <1>5, <1>6

\* A call that is to undo a route by its links has all of them before it.
LEMMA UndoBegins ==
    ASSUME NEW c, c.new \in Routes, c.old \in RoutesOrNone, c.undo \in BOOLEAN, ~c.undo,
           c.script = RestoreScript, c.pc \in {"undoMove", "undoRoute"}, NEW a,
           \A s, t \in Mixed : s = t
    PROVE  PlaceOK(c, a)
  <1>1. RestoreScript # <<Unlink("rR")>>
    BY DEF RestoreScript, Unlink, Link
  <1>2. ScriptShape(c)
    BY <1>1 DEF ScriptShape, Restoring, RestoreScripts
  <1>3. NoRoute \notin Routes
    BY DEF NoRoute, Routes
  <1> QED
    BY <1>2, <1>3 DEF PlaceOK, MixShape, ReleaseShape, RoutesOrNone

\* The journal of a new route, or the beginning of its end.
LEMMA PersistNewPlaces == PlaceInv /\ RouteInv' /\ PersistNew => PlaceInv'
  <1> SUFFICES ASSUME PlaceInv, RouteInv', PersistNew PROVE PlaceInv'
    OBVIOUS
  <1>1. /\ call.pc = "persist" /\ mode' = mode /\ active' = active
        /\ journal' \in {journal, call.new} /\ UNCHANGED <<streams, ports, placed>>
    BY DEF PersistNew, At, world
  <1>2. /\ IsCall(call) /\ WorldShape /\ RoutesKnown /\ call.old \in RoutesOrNone
        /\ call.new \in Routes /\ call.undo \in BOOLEAN /\ ~call.undo
        /\ (\A s, t \in Mixed : s = t)
    BY <1>1, PlaceParts DEF PlaceInv, PlaceOK, ScriptShape, RouteInv, Agrees, RoutesOrNone
  <1>3. WorldShape' /\ RoutesKnown' /\ \A s, t \in Mixed' : s = t
    BY <1>1, <1>2 DEF WorldShape, RoutesKnown, RoutesOrNone, Mixed
  <1> DEFINE next == [Goto("routeOutputs") EXCEPT !.script = <<>>]
             undo == [Goto("undoMove") EXCEPT !.script = RestoreScript]
  <1>4. /\ next.pc = "routeOutputs" /\ next.new = call.new /\ next.old = call.old
        /\ next.undo = call.undo
    BY <1>2 DEF IsCall, Goto
  <1>5. /\ IsCall(undo) /\ undo.pc = "undoMove" /\ undo.new = call.new /\ undo.old = call.old
        /\ undo.undo = call.undo /\ undo.script = RestoreScript
    BY <1>2 DEF IsCall, Goto
  <1>6. call' = next \/ call' = Failing(undo)
    BY DEF PersistNew, Continue
  <1> HIDE DEF next, undo
  <1>7. CASE call' = next
    BY <1>2, <1>3, <1>4, <1>7, QuietPlace DEF RoutesOrNone
  <1>8. CASE call' = Failing(undo)
    <2>1. PlaceOK(call', active')
      BY <1>2, <1>5, <1>8, FailingShape, FailingFields, UndoBegins
    <2> QED
      BY <1>3, <2>1, <1>1, SameWorld DEF RoutesKnown
  <1> QED
    BY <1>6, <1>7, <1>8

\* The journal of a kept route.
LEMMA PersistSamePlaces == PlaceInv /\ RouteInv' /\ PersistSame => PlaceInv'
  <1> SUFFICES ASSUME PlaceInv, RouteInv', PersistSame PROVE PlaceInv'
    OBVIOUS
  <1>1. /\ call.pc = "persistSame" /\ mode' = mode /\ active' = active
        /\ journal' \in {journal, call.old} /\ UNCHANGED <<streams, ports, placed>>
        /\ call' = NoCall \/ call' = Goto("routeOutputs")
    BY DEF PersistSame, At, world, memory, Continue, Return
  <1>2. /\ IsCall(call) /\ WorldShape /\ RoutesKnown /\ call.old \in RoutesOrNone
        /\ call.new \in RoutesOrNone /\ call.undo \in BOOLEAN /\ ~call.undo
        /\ (\A s, t \in Mixed : s = t)
    BY <1>1, PlaceParts DEF PlaceInv, PlaceOK, ScriptShape
  <1>3. WorldShape' /\ RoutesKnown' /\ \A s, t \in Mixed' : s = t
    BY <1>1, <1>2 DEF WorldShape, RoutesKnown, Mixed
  <1>4. CASE call' = NoCall
    BY <1>3, <1>4, ReturnPlace
  <1>5. CASE call' = Goto("routeOutputs")
    BY <1>2, <1>3, <1>5, GotoShape, GotoFields, QuietPlace
  <1> QED
    BY <1>1, <1>4, <1>5

\* The captures of a route are moved or moved back, or the route is to be undone.
LEMMA CapturePlaces == PlaceInv /\ RouteInv' /\ (RouteOutput \/ UndoOutput) => PlaceInv'
  <1> SUFFICES ASSUME PlaceInv, RouteInv', RouteOutput \/ UndoOutput PROVE PlaceInv'
    OBVIOUS
  <1>1. /\ call.pc \in {"routeOutputs", "undoOutputs"} /\ mode' = mode /\ active' = active
        /\ journal' = journal /\ UNCHANGED <<streams, ports, placed>>
    BY DEF RouteOutput, UndoOutput, At, world, memory, MoveCapture, MoveCaptureFails
  <1>2. /\ IsCall(call) /\ WorldShape /\ RoutesKnown /\ call.old \in RoutesOrNone
        /\ call.new \in RoutesOrNone /\ call.undo \in BOOLEAN /\ ~call.undo
        /\ (\A s, t \in Mixed : s = t)
    BY <1>1, PlaceParts DEF PlaceInv, PlaceOK, ScriptShape
  <1>3. WorldShape' /\ RoutesKnown' /\ \A s, t \in Mixed' : s = t
    BY <1>1, <1>2 DEF WorldShape, RoutesKnown, Mixed
  <1> DEFINE undo == [Goto("undoRoute") EXCEPT !.script = RestoreScript]
  <1>4. /\ IsCall(undo) /\ undo.pc = "undoRoute" /\ undo.new = call.new
        /\ undo.old = call.old /\ undo.undo = call.undo /\ undo.script = RestoreScript
    BY <1>2 DEF IsCall, Goto
  <1> HIDE DEF undo
  <1>5. ASSUME call.new # NoRoute, IsCall(call'), call'.pc = "undoRoute",
               call'.new = call.new, call'.old = call.old, call'.undo = call.undo,
               call'.script = RestoreScript
        PROVE  PlaceInv'
    <2>1. PlaceOK(call', active')
      BY <1>2, <1>5, UndoBegins DEF RoutesOrNone
    <2> QED
      BY <1>1, <1>3, <2>1, SameWorld DEF RoutesKnown
  <1>6. CASE \E m : call' = [call EXCEPT !.moved = m]
    <2>1. /\ call'.pc = call.pc /\ call'.new = call.new /\ call'.old = call.old
          /\ call'.undo = call.undo
      BY <1>2, <1>6 DEF IsCall
    <2> QED
      BY <1>1, <1>2, <1>3, <2>1, QuietPlace
  <1>7. CASE call' = Failing(Goto("undoOutputs"))
    BY <1>2, <1>3, <1>7, GotoShape, GotoFields, FailingShape, FailingFields, QuietPlace
  <1>8. CASE call' = Failing(AfterOutputFailure)
    <2>1. CASE call.new = NoRoute
      BY <1>3, <1>8, <2>1, ReturnPlace DEF AfterOutputFailure, Failing
    <2>2. CASE call.new # NoRoute
      <3>1. call' = Failing(undo)
        BY <1>8, <2>2 DEF AfterOutputFailure, undo
      <3> QED
        BY <1>4, <1>5, <2>2, <3>1, FailingShape, FailingFields
    <2> QED
      BY <2>1, <2>2
  <1>9. CASE call' = [AfterOutputFailure EXCEPT !.moved = {}]
    <2>1. CASE call.new = NoRoute
      <3>1. call' = NoCall
        BY <1>9, <2>1 DEF AfterOutputFailure, NoCall
      <3> QED
        BY <1>3, <3>1, ReturnPlace
    <2>2. CASE call.new # NoRoute
      <3>1. call' = [undo EXCEPT !.moved = {}]
        BY <1>9, <2>2 DEF AfterOutputFailure, undo
      <3>2. /\ IsCall(call') /\ call'.pc = undo.pc /\ call'.new = undo.new
            /\ call'.old = undo.old /\ call'.undo = undo.undo /\ call'.script = undo.script
        BY <1>4, <3>1 DEF IsCall
      <3> QED
        BY <1>4, <1>5, <2>2, <3>2
    <2> QED
      BY <2>1, <2>2
  <1> QED
    BY <1>6, <1>7, <1>8, <1>9 DEF RouteOutput, UndoOutput, Continue

\* The route with its captures becomes the active one.
LEMMA OutputsRoutedPlaces == PlaceInv /\ RouteInv' /\ OutputsRouted => PlaceInv'
  <1> SUFFICES ASSUME PlaceInv, RouteInv', OutputsRouted PROVE PlaceInv'
    OBVIOUS
  <1>1. /\ call.pc = "routeOutputs" /\ mode' = mode /\ active' = Routed
        /\ journal' = journal /\ UNCHANGED <<streams, ports, placed>> /\ call' = NoCall
    BY DEF OutputsRouted, At, world, Return
  <1>2. /\ WorldShape /\ RoutesKnown /\ Routed \in RoutesOrNone /\ mode # "down"
        /\ (\A s, t \in Mixed : s = t)
    BY <1>1, PlaceParts DEF Routed, RouteInv
  <1>3. WorldShape' /\ RoutesKnown' /\ \A s, t \in Mixed' : s = t
    BY <1>1, <1>2 DEF WorldShape, RoutesKnown, Mixed
  <1> QED
    BY <1>1, <1>3, ReturnPlace

\* The new route is undone.
LEMMA UndoPlaces == PlaceInv /\ RouteInv' /\ Undo => PlaceInv'
  <1> SUFFICES ASSUME PlaceInv, RouteInv', Undo PROVE PlaceInv'
    OBVIOUS
  <1> DEFINE next == IF At("undoRoute") THEN Goto("clearUndo") ELSE NoCall
  <1>1. /\ call.pc \in {"undoMove", "undoRoute"} /\ mode' = mode /\ active' = active
        /\ journal' = journal
    BY DEF Undo, memory
  <1>2. /\ IsCall(call) /\ WorldShape /\ RoutesKnown /\ call.old \in RoutesOrNone
        /\ call.new \in Routes /\ call.undo \in BOOLEAN
        /\ (\A s, t \in Mixed : s = t)
    BY <1>1, PlaceParts DEF PlaceInv, PlaceOK, ReleaseShape, RoutesOrNone
  <1>3. /\ call.new.sid \in StreamIds /\ call.new.method \in {"PulseMove", "PipeWireLinks"}
        /\ RoutesKnown'
    BY <1>1, <1>2 DEF Routes, RoutesKnown
  <1>4. /\ IsCall(next)
        /\ \/ next = NoCall
           \/ /\ next.pc = "clearUndo" /\ next.new = call.new /\ next.old = call.old
              /\ next.undo = call.undo
    BY <1>2, GotoShape, GotoFields, NoCallAgrees
  <1> HIDE DEF next
  <1>5. ASSUME WorldShape', Mixed' \subseteq Mixed, call' = next, next # NoCall => ~call.undo
        PROVE  PlaceInv'
    <2>1. \A s, t \in Mixed' : s = t
      BY <1>2, <1>5
    <2>2. CASE next = NoCall
      BY <1>3, <1>5, <2>1, <2>2, ReturnPlace
    <2>3. CASE next # NoCall
      BY <1>2, <1>3, <1>4, <1>5, <2>1, <2>3, QuietPlace DEF RoutesOrNone
    <2> QED
      BY <2>2, <2>3
  <1>6. CASE call.new.method = "PulseMove"
    <2>1. ~call.undo
      BY <1>1, <1>2, <1>6 DEF PlaceInv, PlaceOK, ScriptShape
    <2>2. call' = next
      BY <1>6 DEF Undo, Continue, next
    <2>3. WorldShape' /\ Mixed' \subseteq Mixed
      <3>1. CASE MoveRefused(call.new.sid)
        BY <1>2, <3>1 DEF MoveRefused, world, WorldShape, Mixed
      <3>2. CASE PutStream(call.new.sid, "phys")
        BY <1>2, <1>3, <3>2, PutStreamFacts DEF Sinks
      <3> QED
        BY <1>6, <3>1, <3>2 DEF Undo, MoveDone
    <2> QED
      BY <1>5, <2>1, <2>2, <2>3
  <1>7. CASE call.new.method = "PipeWireLinks"
    <2>1. Restoring(call, call.new.sid)
      BY <1>1, <1>7 DEF PlaceInv, PlaceOK, ScriptShape
    <2>2. RunLinks(call.new.sid, RestoreUndo, next, next)
      BY <1>7 DEF Undo, next
    <2>3. PICK s \in StreamIds : s = call.new.sid
      BY <1>3
    <2>4. /\ WorldShape' /\ Mixed' \subseteq Mixed
          /\ \/ call' = next \/ call' = Failing(next)
             \/ /\ IsCall(call') /\ call'.pc = call.pc /\ call'.new = call.new
                /\ call'.old = call.old /\ call'.undo \in BOOLEAN /\ Restoring(call, s)'
      BY <1>4, <2>1, <2>2, <2>3, RestoreLinks
    <2>5. \A t, u \in Mixed' : t = u
      BY <1>2, <2>4
    <2>6. CASE call' = next \/ call' = Failing(next)
      <3>1. CASE next = NoCall
        BY <1>3, <2>4, <2>5, <2>6, <3>1, ReturnPlace DEF Failing
      <3>2. CASE next # NoCall
        <4>1. call'.pc = "clearUndo" /\ call'.new = call.new /\ call'.old = call.old
              /\ call'.undo = call.undo
          BY <1>4, <2>6, <3>2, FailingShape, FailingFields
        <4>2. PlaceOK(call, active)'
          BY <1>2, <2>5, <4>1 DEF PlaceOK, ScriptShape, MixShape, ReleaseShape, RoutesOrNone
        <4> QED
          BY <1>3, <2>4, <4>2 DEF PlaceInv
      <3> QED
        BY <3>1, <3>2
    <2>7. CASE /\ IsCall(call') /\ call'.pc = call.pc /\ call'.new = call.new
               /\ call'.old = call.old /\ call'.undo \in BOOLEAN /\ Restoring(call, s)'
      <3>1. ScriptShape(call)'
        BY <1>1, <1>7, <2>3, <2>7 DEF ScriptShape, Restoring
      <3>2. MixShape(call)' /\ ReleaseShape(call, active)'
        BY <1>1, <1>2, <2>5, <2>7 DEF MixShape, ReleaseShape, NoRoute, Routes
      <3> QED
        BY <1>2, <1>3, <2>4, <2>7, <3>1, <3>2 DEF PlaceInv, PlaceOK, RoutesOrNone
    <2> QED
      BY <2>4, <2>6, <2>7
  <1> QED
    BY <1>3, <1>6, <1>7

\* A stray stream leaves REMOTE_IN.
LEMMA MoveStalePlaces == PlaceInv /\ RouteInv' /\ MoveStale => PlaceInv'
  <1> SUFFICES ASSUME PlaceInv, RouteInv', MoveStale PROVE PlaceInv'
    OBVIOUS
  <1>1. /\ call.pc = "moveStale" /\ mode' = mode /\ active' = active /\ journal' = journal
        /\ call' = NoCall \/ call' = Goto("clearStale")
    BY DEF MoveStale, At, Continue, Return
  <1>2. /\ IsCall(call) /\ WorldShape /\ RoutesKnown /\ call.old \in RoutesOrNone
        /\ call.new \in RoutesOrNone /\ call.undo \in BOOLEAN /\ ~call.undo
        /\ (\A s, t \in Mixed : s = t)
    BY <1>1, PlaceParts DEF PlaceInv, PlaceOK, ScriptShape
  <1>3. WorldShape' /\ Mixed' \subseteq Mixed
    <2>1. CASE UNCHANGED world
      BY <1>2, <2>1 DEF world, WorldShape, Mixed
    <2>2. CASE call.new.sid \in Live /\ PutStream(call.new.sid, "phys")
      BY <1>2, <2>2, PutStreamFacts DEF Sinks, Live
    <2> QED
      BY <2>1, <2>2 DEF MoveStale, MoveDone, MoveRefused, MoveTimedOut
  <1>4. RoutesKnown' /\ \A s, t \in Mixed' : s = t
    BY <1>1, <1>2, <1>3 DEF RoutesKnown
  <1>5. CASE call' = NoCall
    BY <1>3, <1>4, <1>5, ReturnPlace
  <1>6. CASE call' = Goto("clearStale")
    BY <1>2, <1>3, <1>4, <1>6, GotoShape, GotoFields, QuietPlace
  <1> QED
    BY <1>1, <1>5, <1>6

\* The daemon's process: a daemon that starts has no call.
LEMMA ProcessPlaces ==
    PlaceInv /\ RouteInv' /\ (BeginStop \/ Exit \/ Crash \/ Start) => PlaceInv'
  <1> SUFFICES ASSUME PlaceInv, RouteInv', BeginStop \/ Exit \/ Crash \/ Start
               PROVE  PlaceInv'
    OBVIOUS
  <1>1. /\ UNCHANGED <<streams, ports, placed>> /\ journal' = journal
        /\ active' \in {active, NoRoute, journal} /\ (mode' = "down" => active' = NoRoute)
    BY DEF BeginStop, Exit, Crash, Start, Dead, world, memory
  <1>2. /\ WorldShape /\ RoutesKnown /\ active' \in RoutesOrNone /\ IsCall(call)
        /\ (\A s, t \in Mixed : s = t) /\ RouteInv
    BY <1>1, PlaceParts DEF RoutesOrNone
  <1>3. WorldShape' /\ RoutesKnown' /\ \A s, t \in Mixed' : s = t
    BY <1>1, <1>2 DEF WorldShape, RoutesKnown, Mixed
  <1>4. CASE call' = NoCall
    BY <1>3, <1>4, ReturnPlace
  <1>5. CASE BeginStop
    BY <1>1, <1>2, <1>5, SameWorld DEF BeginStop, memory, PlaceInv, RoutesKnown
  <1>6. CASE Start
    <2>1. call.pc = "idle" /\ call' = call
      BY <1>2, <1>6 DEF Start, RouteInv
    <2>2. /\ call.new \in RoutesOrNone /\ call.old \in RoutesOrNone /\ call.undo \in BOOLEAN
          /\ ~call.undo
      BY <2>1 DEF PlaceInv, PlaceOK, ScriptShape
    <2> QED
      BY <1>3, <2>1, <2>2, QuietPlace
  <1> QED
    BY <1>4, <1>5, <1>6 DEF Exit, Crash, Dead, Return

\* A stream that vanishes is no longer routed.
LEMMA VanishPlaces ==
    ASSUME PlaceInv, RouteInv', NEW s \in StreamIds, Vanish(s)
    PROVE  PlaceInv'
  <1>1. /\ call' = call /\ active' = active /\ journal' = journal /\ mode' = mode
        /\ streams' = [streams EXCEPT ![s] = NoStream] /\ ports' = [ports EXCEPT ![s] = {}]
        /\ placed' = placed \ {s}
    BY DEF Vanish, memory
  <1>2. WorldShape /\ RoutesKnown /\ NoStream \in StreamRecords
    BY PlaceParts DEF NoStream, StreamRecords, Sinks
  <1>3. /\ streams'[s] = NoStream /\ ports'[s] = {}
        /\ \A t \in StreamIds \ {s} : streams'[t] = streams[t] /\ ports'[t] = ports[t]
        /\ streams' \in [StreamIds -> StreamRecords] /\ ports' = [t \in StreamIds |-> ports'[t]]
    BY <1>1, <1>2 DEF WorldShape
  <1>4. WorldShape' /\ Mixed' \subseteq Mixed
    BY <1>1, <1>2, <1>3 DEF WorldShape, Mixed
  <1>5. StillRouted(active)' => StillRouted(active)
    BY <1>1, <1>3 DEF StillRouted, same_route_identity, Live, AppOf
  <1>6. RoutesKnown'
    BY <1>1, <1>2 DEF RoutesKnown
  <1>7. ASSUME NEW r \in Routes, Restoring(call, r.sid)
        PROVE  IF call.undo THEN call.script = <<Unlink("oL")>>
               ELSE /\ call.script \in RestoreScripts
                    /\ call.script = <<Unlink("rR")>> => "rL" \notin ports'[r.sid]
    BY <1>3, <1>7 DEF Restoring, Routes
  <1>8. ScriptShape(call)'
    <2>1. ScriptShape(call) /\ call.new \in RoutesOrNone /\ call.old \in RoutesOrNone
      BY DEF PlaceInv, PlaceOK
    <2>2. NoRoute.method # "PipeWireLinks"
      BY DEF NoRoute
    <2> QED
      BY <1>1, <1>7, <2>1, <2>2 DEF ScriptShape, Restoring, RoutesOrNone
  <1>9. MixShape(call)'
    BY <1>1, <1>4 DEF PlaceInv, PlaceOK, MixShape
  <1>10. ReleaseShape(call, active)'
    BY <1>1, <1>5 DEF PlaceInv, PlaceOK, ReleaseShape
  <1> QED
    BY <1>1, <1>4, <1>6, <1>8, <1>9, <1>10 DEF PlaceInv, PlaceOK

\* A stream that appears is not yet placed; one that the user moves away no longer is.
LEMMA StreamPlaces ==
    ASSUME PlaceInv, RouteInv', NEW s \in StreamIds,
           \/ UserMovesAway(s)
           \/ \E sink \in Sinks, k \in KindsOf[s] : Appear(s, k, sink)
    PROVE  PlaceInv'
  <1>1. /\ call' = call /\ active' = active /\ journal' = journal /\ mode' = mode
        /\ call.pc = "idle"
    BY DEF UserMovesAway, Appear, memory, At
  <1>2. /\ WorldShape /\ RoutesKnown /\ (\A t, u \in Mixed : t = u)
    BY PlaceParts
  <1>3. WorldShape' /\ Mixed' \subseteq Mixed
    <2>1. CASE UserMovesAway(s)
      BY <1>2, <2>1, PutStreamFacts DEF UserMovesAway, Sinks
    <2>2. ASSUME NEW sink \in Sinks, NEW k \in KindsOf[s], Appear(s, k, sink)
          PROVE  WorldShape' /\ Mixed' \subseteq Mixed
      <3>1. k \in Kinds
        BY RoutingAssumption
      <3>2. [kind |-> k, sink |-> sink] \in StreamRecords
        BY <3>1 DEF StreamRecords
      <3>3. placed' = placed /\ s \notin placed
        BY <1>2, <2>2, PlacedAreLive DEF Appear
      <3>4. /\ \A t \in StreamIds \ {s} : streams'[t] = streams[t] /\ ports'[t] = ports[t]
            /\ streams' \in [StreamIds -> StreamRecords]
            /\ ports' = [t \in StreamIds |-> ports'[t]]
        BY <1>2, <2>2, <3>2 DEF Appear, WorldShape
      <3> QED
        BY <1>2, <3>3, <3>4 DEF WorldShape, Mixed
    <2> QED
      BY <2>1, <2>2
  <1>4. RoutesKnown' /\ \A t, u \in Mixed' : t = u
    BY <1>1, <1>2, <1>3 DEF RoutesKnown
  <1>5. /\ call.new \in RoutesOrNone /\ call.old \in RoutesOrNone /\ call.undo \in BOOLEAN
        /\ ~call.undo
    BY <1>1 DEF PlaceInv, PlaceOK, ScriptShape
  <1> QED
    BY <1>1, <1>3, <1>4, <1>5, QuietPlace

\* The world around the daemon.
LEMMA EnvironmentPlaces ==
    PlaceInv /\ RouteInv' /\ (Environment \/ UNCHANGED vars) => PlaceInv'
  <1> SUFFICES ASSUME PlaceInv, RouteInv', Environment \/ UNCHANGED vars PROVE PlaceInv'
    OBVIOUS
  <1>1. CASE /\ UNCHANGED <<streams, ports, placed>>
             /\ call' = call /\ active' = active /\ journal' = journal /\ mode' = mode
    BY <1>1, SameWorld, PlaceParts DEF PlaceInv, RoutesKnown
  <1>2. CASE UNCHANGED vars
    BY <1>1, <1>2 DEF vars
  <1>3. CASE \E o \in Outputs, source \in {"none", "phys", "mic"} : CaptureChanges(o, source)
    BY <1>1, <1>3 DEF CaptureChanges, MoveCapture, memory
  <1>4. CASE \E f \in SUBSET {"sink", "source"} : DevicesChange(f)
    BY <1>1, <1>4 DEF DevicesChange, world, memory
  <1>5. CASE \E s \in StreamIds : Vanish(s) \/ UserMovesAway(s)
    BY <1>5, VanishPlaces, StreamPlaces
  <1>6. CASE \E s \in StreamIds, sink \in Sinks : \E k \in KindsOf[s] : Appear(s, k, sink)
    BY <1>6, StreamPlaces
  <1> QED
    BY <1>2, <1>3, <1>4, <1>5, <1>6 DEF Environment

----------------------------------------------------------------------------
(* The theorems about the streams.                                         *)

\* Every step keeps the streams in their places.
LEMMA PlaceStepKeeps == PlaceInv /\ [RoutingNext]_vars => PlaceInv'
  <1> SUFFICES ASSUME PlaceInv, [RoutingNext]_vars PROVE PlaceInv'
    OBVIOUS
  <1>1. RouteInv'
    BY RouteStepKeeps DEF PlaceInv
  <1>2. CASE Refresh \/ (\E s \in StreamIds : ManualRoute(s)) \/ RestoreOnStop
    BY <1>1, <1>2, BeginsPlace
  <1>3. CASE Commands
    BY <1>1, <1>3, RestoreOldPlaces, GiveUpPlaces, MoveNewPlaces, LinkNewPlaces,
       MoveAgainPlaces, PersistNewPlaces, PersistSamePlaces, CapturePlaces,
       OutputsRoutedPlaces, UndoPlaces, MoveStalePlaces DEF Commands
  <1>4. CASE BeginStop \/ Exit \/ Crash \/ Start
    BY <1>1, <1>4, ProcessPlaces
  <1>5. CASE Environment \/ UNCHANGED vars
    BY <1>1, <1>5, EnvironmentPlaces
  <1> QED
    BY <1>2, <1>3, <1>4, <1>5 DEF RoutingNext

\* The daemon starts with nothing routed.
LEMMA PlaceInitially == RoutingInit => PlaceInv
  <1> SUFFICES ASSUME RoutingInit PROVE PlaceInv
    OBVIOUS
  <1>1. RouteInv
    BY NoCallAgrees DEF RoutingInit, RouteInv, ActiveIsJournaled
  <1>2. WorldShape /\ RoutesKnown /\ Mixed = {}
    BY DEF RoutingInit, WorldShape, RoutesKnown, RoutesOrNone, Mixed, NoStream, StreamRecords,
           Sinks
  <1>3. PlaceOK(call, active)
    BY <1>2, NoCallPlace DEF RoutingInit
  <1> QED
    BY <1>1, <1>2, <1>3 DEF PlaceInv

\* What a step may add to the streams heard on REMOTE_IN: the one that is moved or linked there.
LEMMA OnlyRoutingAdds ==
    ASSUME PlaceInv, RoutingNext, NEW s \in OnRemote', s \notin OnRemote
    PROVE  \/ call.pc \in {"move", "link"} /\ s = call.new.sid
           \/ call.pc = "moveAgain" /\ s = call.old.sid
  <1> USE DEF OnRemote, Live
  <1>1. WorldShape /\ IsCall(call) /\ s \in StreamIds
    BY PlaceParts
  <1>2. ~UNCHANGED <<streams, ports, placed>>
    OBVIOUS
  <1>3. ASSUME NEW t \in StreamIds, NEW sink \in Sinks, PutStream(t, sink)
        PROVE  s = t /\ sink = "remote"
    <2>1. /\ \A u \in StreamIds \ {t} : streams'[u] = streams[u] /\ ports'[u] = ports[u]
          /\ \A u \in StreamIds \ {t} : u \in placed' <=> u \in placed
          /\ sink = "phys" => ports'[t] = {"oL", "oR"}
      BY <1>1, <1>3 DEF PutStream, WorldShape
    <2> QED
      BY <1>1, <2>1 DEF Sinks
  <1>4. ASSUME NEW t \in StreamIds, NEW rollback, NEW done, NEW failed,
               RunLinks(t, rollback, done, failed)
        PROVE  s = t
    <2>1. /\ UNCHANGED <<streams, placed>>
          /\ \A u \in StreamIds \ {t} : ports'[u] = ports[u]
      BY <1>1, <1>4, LinksOfOne
    <2> QED
      BY <1>1, <2>1
  <1>5. CASE MoveNew
    <2>1. call.pc = "move" /\ call.new \in Routes
      BY <1>5, PlaceParts DEF MoveNew, At, RouteInv, Agrees, RoutesOrNone
    <2>2. PutStream(call.new.sid, "remote")
      BY <1>2, <1>5 DEF MoveNew, MoveDone, MoveRefused, MoveTimedOut, world
    <2> QED
      BY <1>3, <2>1, <2>2 DEF Routes, Sinks
  <1>6. CASE LinkNew
    <2>1. call.pc = "link" /\ call.new \in Routes
      BY <1>6, PlaceParts DEF LinkNew, At, RouteInv, Agrees, RoutesOrNone
    <2> QED
      BY <1>4, <1>6, <2>1 DEF LinkNew, Routes
  <1>7. CASE MoveAgain
    <2>1. call.pc = "moveAgain" /\ call.old.sid \in StreamIds
          /\ PutStream(call.old.sid, "remote")
      BY <1>2, <1>7 DEF MoveAgain, At, MoveDone, MoveRefused, MoveTimedOut, world
    <2> QED
      BY <1>3, <2>1 DEF Sinks
  <1>8. ASSUME NEW t \in StreamIds, Restoring(call, t), NEW done, NEW failed, IsCall(done),
               IsCall(failed), RunLinks(t, RestoreUndo, done, failed)
        PROVE  FALSE
    <2>1. UNCHANGED <<streams, placed>> /\ ports'[t] \cap {"rL", "rR"} \subseteq ports[t]
      BY <1>8, RestoreLinks
    <2>2. s = t
      BY <1>4, <1>8
    <2> QED
      BY <2>1, <2>2
  <1>9. CASE RestoreOld
    <2>1. call.pc = "restoreOld" /\ call.old \in Routes
      BY <1>9 DEF RestoreOld, At, PlaceInv, PlaceOK, ReleaseShape, RoutesOrNone
    <2>2. CASE call.old.method = "PulseMove"
      BY <1>2, <1>3, <1>9, <2>1, <2>2
         DEF RestoreOld, MoveDone, MoveRefused, MoveTimedOut, world, Routes, Sinks
    <2>3. CASE call.old.method = "PipeWireLinks"
      <3>1. Restoring(call, call.old.sid)
        BY <2>1, <2>3 DEF PlaceInv, PlaceOK, ScriptShape
      <3>2. RunLinks(call.old.sid, RestoreUndo, Goto("dropOutputs"), NoCall)
        BY <1>9, <2>3 DEF RestoreOld
      <3>3. IsCall(Goto("dropOutputs")) /\ IsCall(NoCall)
        BY <1>1, GotoShape, NoCallAgrees
      <3> QED
        BY <1>8, <2>1, <3>1, <3>2, <3>3 DEF Routes
    <2> QED
      BY <2>1, <2>2, <2>3 DEF Routes
  <1>10. CASE Undo
    <2> DEFINE next == IF At("undoRoute") THEN Goto("clearUndo") ELSE NoCall
    <2>1. call.pc \in {"undoMove", "undoRoute"} /\ call.new \in Routes
      BY <1>10 DEF Undo, PlaceInv, PlaceOK, ReleaseShape, RoutesOrNone
    <2>2. CASE call.new.method = "PulseMove"
      BY <1>2, <1>3, <1>10, <2>1, <2>2 DEF Undo, MoveDone, MoveRefused, world, Routes, Sinks
    <2>3. CASE call.new.method = "PipeWireLinks"
      <3>1. Restoring(call, call.new.sid)
        BY <2>1, <2>3 DEF PlaceInv, PlaceOK, ScriptShape
      <3>2. RunLinks(call.new.sid, RestoreUndo, next, next)
        BY <1>10, <2>3 DEF Undo
      <3>3. IsCall(next)
        BY <1>1, GotoShape, NoCallAgrees
      <3> HIDE DEF next
      <3> QED
        BY <1>8, <2>1, <3>1, <3>2, <3>3 DEF Routes
    <2> QED
      BY <2>1, <2>2, <2>3 DEF Routes
  <1>11. CASE MoveStale
    BY <1>2, <1>3, <1>11 DEF MoveStale, MoveDone, MoveRefused, MoveTimedOut, world, Sinks
  <1>12. CASE Environment
    <2>1. ASSUME NEW t \in StreamIds, Vanish(t) PROVE FALSE
      <3>1. /\ \A u \in StreamIds \ {t} : streams'[u] = streams[u] /\ ports'[u] = ports[u]
            /\ placed' = placed \ {t} /\ ports'[t] = {}
        BY <1>1, <2>1 DEF Vanish, WorldShape
      <3> QED
        BY <1>1, <3>1
    <2>2. ASSUME NEW t \in StreamIds, UserMovesAway(t) PROVE FALSE
      BY <1>3, <2>2 DEF UserMovesAway, Sinks
    <2>3. ASSUME NEW t \in StreamIds, NEW sink \in Sinks, NEW k, Appear(t, k, sink)
          PROVE  FALSE
      <3>1. /\ \A u \in StreamIds \ {t} : streams'[u] = streams[u] /\ ports'[u] = ports[u]
            /\ placed' = placed /\ t \notin placed
            /\ streams'[t].sink = sink /\ (sink = "phys" => ports'[t] = {"oL", "oR"})
        BY <1>1, <2>3, PlacedAreLive DEF Appear, WorldShape
      <3> QED
        BY <1>1, <3>1 DEF Sinks
    <2>4. CASE \E o \in Outputs, source \in {"none", "phys", "mic"} : CaptureChanges(o, source)
      BY <1>2, <2>4 DEF CaptureChanges, MoveCapture
    <2>5. CASE \E f \in SUBSET {"sink", "source"} : DevicesChange(f)
      BY <1>2, <2>5 DEF DevicesChange, world
    <2> QED
      BY <1>12, <2>1, <2>2, <2>3, <2>4, <2>5 DEF Environment
  <1>13. CASE \/ DropOutput \/ OutputsDropped \/ ClearOld \/ ClearLast \/ PersistNew
              \/ PersistSame \/ RouteOutput \/ UndoOutput \/ OutputsRouted
    BY <1>2, <1>13 DEF DropOutput, OutputsDropped, ClearOld, ClearLast, PersistNew,
       PersistSame, RouteOutput, UndoOutput, OutputsRouted, MoveCapture, MoveCaptureFails, world
  <1>14. CASE \/ Refresh \/ (\E t \in StreamIds : ManualRoute(t)) \/ BeginStop
              \/ RestoreOnStop \/ Exit \/ Crash \/ Start
    BY <1>2, <1>14 DEF Refresh, ManualRoute, BeginStop, RestoreOnStop, Exit, Crash, Start, world
  <1> QED
    BY <1>5, <1>6, <1>7, <1>9, <1>10, <1>11, <1>12, <1>13, <1>14 DEF RoutingNext, Commands

\* A conversation is routed when no other that the watcher routed and knows of is heard on
\* REMOTE_IN, whatever fails and whenever the daemon dies: the one before it was taken back.
THEOREM RoutesComeOneAtATime == RoutingSpec => OneRouteAtATime
  <1> DEFINE Alone == \A s \in OnRemote' \ OnRemote : \A t \in OnRemote \ {s} : ~Known(t)
  <1>1. PlaceInv /\ [RoutingNext]_vars => [Alone]_vars
    <2> SUFFICES ASSUME PlaceInv, RoutingNext,
                        NEW s \in OnRemote' \ OnRemote, NEW t \in OnRemote \ {s}, Known(t)
                 PROVE  FALSE
      OBVIOUS
    <2>1. t \in StreamIds /\ (t \in placed => t \in Mixed)
      BY DEF OnRemote, Live, Mixed
    <2>2. t # NoRoute.sid
      BY <2>1, RoutingAssumption DEF NoRoute
    <2>3. CASE call.pc \in {"move", "link"} /\ s = call.new.sid
      <3>1. active = NoRoute /\ Mixed \subseteq {s}
        BY <2>3 DEF PlaceInv, PlaceOK, MixShape, RouteInv, Agrees, Unrouted
      <3> QED
        BY <2>1, <2>2, <3>1 DEF Known
    <2>4. CASE call.pc = "moveAgain" /\ s = call.old.sid
      <3>1. active.sid = s /\ Mixed \subseteq {s}
        BY <2>4 DEF PlaceInv, PlaceOK, MixShape, RouteInv, Agrees
      <3> QED
        BY <2>1, <3>1 DEF Known
    <2> QED
      BY <2>3, <2>4, OnlyRoutingAdds
  <1> QED
    BY <1>1, PlaceInitially, PlaceStepKeeps, PTL DEF RoutingSpec, OneRouteAtATime

\* A daemon that lives gives up its active route only in a call that has taken the stream
\* back, or has found it gone.
THEOREM RouteIsReleasedWhenRestored == RoutingSpec => ReleasedWhenRestored
  <1> DEFINE Released == active # NoRoute /\ active' # active /\ mode' # "down"
                            => ~StillRouted(active)
  <1>1. PlaceInv /\ [RoutingNext]_vars => [Released]_vars
    <2> SUFFICES ASSUME PlaceInv, RoutingNext, active # NoRoute, active' # active,
                        mode' # "down"
                 PROVE  ~StillRouted(active)
      OBVIOUS
    <2>1. active \in Routes
      BY PlaceParts DEF RoutesOrNone
    <2>2. CASE ~\E s \in Candidates : same_route_identity(active, s)
      BY <2>1, <2>2, ActiveIsCandidate DEF StillRouted
    <2>3. CASE call.pc = "dropOutputs"
      BY <2>3 DEF PlaceInv, PlaceOK, ReleaseShape
    <2>4. CASE OutputsRouted
      <3>1. call.pc = "routeOutputs" /\ active' = Routed
        BY <2>4 DEF OutputsRouted, At
      <3>2. active' = active
        BY <3>1, PlaceParts DEF RouteInv, Agrees, Routed
      <3> QED
        BY <3>2
    <2>5. CASE Start
      BY <2>5 DEF Start, PlaceInv, RoutesKnown
    <2>6. CASE Refresh
      BY <2>2, <2>6 DEF Refresh, memory
    <2>7. CASE Commands
      BY <2>3, <2>4, <2>7
         DEF Commands, RestoreOld, DropOutput, OutputsDropped, ClearOld, ClearLast, MoveNew,
             LinkNew, MoveAgain, PersistNew, PersistSame, RouteOutput, UndoOutput, Undo,
             MoveStale, memory, At
    <2>8. CASE (\E s \in StreamIds : ManualRoute(s)) \/ BeginStop \/ RestoreOnStop
               \/ Exit \/ Crash \/ Environment
      BY <2>8 DEF ManualRoute, BeginStop, RestoreOnStop, Exit, Crash, Environment, Appear,
                  Vanish, UserMovesAway, CaptureChanges, DevicesChange, memory
    <2> QED
      BY <2>5, <2>6, <2>7, <2>8 DEF RoutingNext
  <1> QED
    BY <1>1, PlaceInitially, PlaceStepKeeps, PTL DEF RoutingSpec, ReleasedWhenRestored

----------------------------------------------------------------------------
(* The channels of the streams: the third inductive invariant, when at most *)
(* one command of a call fails.                                             *)

\* Both channels of a stream with these links go somewhere.
Linked(p) == p \cap {"oL", "rL"} # {} /\ p \cap {"oR", "rR"} # {}

\* What is left of route_zoom_with_pipewire_links, of its rollback
\* and of the restoration.
RouteLeft3 == <<Link("rR"), Unlink("oL"), Unlink("oR")>>
RouteLeft2 == <<Unlink("oL"), Unlink("oR")>>
RouteLeft1 == <<Unlink("oR")>>
RestoreLeft3 == <<Link("oR"), Unlink("rL"), Unlink("rR")>>
BackOne == <<Unlink("rL")>>
BackAll == <<Link("oL"), Unlink("rL"), Unlink("rR")>>
BackBoth == <<Unlink("rL"), Unlink("rR")>>
BackLast == <<Unlink("rR")>>

\* The links that the stream of a call has when these commands are left.  The rollback of
\* the last command makes a link again before it removes others: it must not fail as well.
Linking(c, p) ==
    IF c.undo
    THEN \/ c.script = BackOne /\ "oL" \in p
         \/ c.script \in {BackBoth, BackLast} /\ {"oL", "oR"} \subseteq p
         \/ /\ c.script = BackAll /\ {"oR", "rL", "rR"} \subseteq p /\ "oL" \notin p
            /\ c.faults >= MaxFaults
    ELSE \/ c.script = RouteScript
         \/ c.script = RouteLeft3 /\ {"oL", "rL"} \subseteq p
         \/ c.script = RouteLeft2 /\ Ports \subseteq p
         \/ c.script = RouteLeft1 /\ {"oR", "rL", "rR"} \subseteq p /\ "oL" \notin p

\* The same for the commands that take the links back.
Unlinking(c, p) ==
    IF c.undo THEN "rL" \in p
    ELSE /\ Len(c.script) = 3 => {"oL", "rL"} \subseteq p
         /\ Len(c.script) < 3 => {"oL", "oR"} \subseteq p

\* The streams with no pw-link command that timed out after its effect.
Sound == Live \ late

AllLinked == \A s \in Sound : Linked(ports[s])

ChannelOK(c) ==
    /\ c.faults \in Nat
    /\ c.pc = "link" /\ c.new.sid \in Sound => Linking(c, ports[c.new.sid])
    /\ c.pc = "restoreOld" /\ c.old.method = "PipeWireLinks" /\ c.old.sid \in Sound =>
         Unlinking(c, ports[c.old.sid])
    /\ c.pc \in {"undoMove", "undoRoute"} /\ c.new.method = "PipeWireLinks"
       /\ c.new.sid \in Sound => Unlinking(c, ports[c.new.sid])

ChannelInv == PlaceInv /\ AllLinked /\ ChannelOK(call)

\* The scripts, command by command, with their rollbacks.
LEMMA RouteScriptParts ==
    /\ Len(RouteScript) = 4 /\ Head(RouteScript) = Link("rL") /\ Tail(RouteScript) = RouteLeft3
    /\ Len(RouteLeft3) = 3 /\ Head(RouteLeft3) = Link("rR") /\ Tail(RouteLeft3) = RouteLeft2
    /\ Len(RouteLeft2) = 2 /\ Head(RouteLeft2) = Unlink("oL") /\ Tail(RouteLeft2) = RouteLeft1
    /\ Len(RouteLeft1) = 1 /\ Head(RouteLeft1) = Unlink("oR")
    /\ Len(BackOne) = 1 /\ Head(BackOne) = Unlink("rL")
    /\ Len(BackAll) = 3 /\ Head(BackAll) = Link("oL") /\ Tail(BackAll) = BackBoth
    /\ Len(BackBoth) = 2 /\ Head(BackBoth) = Unlink("rL") /\ Tail(BackBoth) = BackLast
    /\ Len(BackLast) = 1 /\ Head(BackLast) = Unlink("rR")
    /\ RouteUndo[1] = <<>> /\ RouteUndo[2] = BackOne /\ RouteUndo[3] = BackBoth
    /\ RouteUndo[4] = BackAll
    /\ BackOne # <<>> /\ BackBoth # <<>> /\ BackAll # <<>>
  <1>1. Len(RouteScript) = 4 /\ Head(RouteScript) = Link("rL") /\ Tail(RouteScript) = RouteLeft3
    BY DEF RouteScript, RouteLeft3
  <1>2. /\ Len(RouteLeft3) = 3 /\ Head(RouteLeft3) = Link("rR")
        /\ Tail(RouteLeft3) = RouteLeft2
    BY DEF RouteLeft3, RouteLeft2
  <1>3. /\ Len(RouteLeft2) = 2 /\ Head(RouteLeft2) = Unlink("oL")
        /\ Tail(RouteLeft2) = RouteLeft1
    BY DEF RouteLeft2, RouteLeft1
  <1>4. /\ Len(RouteLeft1) = 1 /\ Head(RouteLeft1) = Unlink("oR")
        /\ Len(BackOne) = 1 /\ Head(BackOne) = Unlink("rL")
        /\ Len(BackLast) = 1 /\ Head(BackLast) = Unlink("rR")
    BY DEF RouteLeft1, BackOne, BackLast
  <1>5. Len(BackAll) = 3 /\ Head(BackAll) = Link("oL") /\ Tail(BackAll) = BackBoth
    BY DEF BackAll, BackBoth
  <1>6. Len(BackBoth) = 2 /\ Head(BackBoth) = Unlink("rL") /\ Tail(BackBoth) = BackLast
    BY DEF BackBoth, BackLast
  <1>7. /\ RouteUndo[1] = <<>> /\ RouteUndo[2] = BackOne /\ RouteUndo[3] = BackBoth
        /\ RouteUndo[4] = BackAll
    BY DEF RouteUndo, BackOne, BackBoth, BackAll
  <1>8. BackOne # <<>> /\ BackBoth # <<>> /\ BackAll # <<>>
    BY DEF BackOne, BackBoth, BackAll
  <1> QED
    BY <1>1, <1>2, <1>3, <1>4, <1>5, <1>6, <1>7, <1>8

\* What a link command does to its stream, given which command it is.
LEMMA LinkEffect ==
    ASSUME WorldShape, NEW s \in StreamIds, Relink(s), NEW port
    PROVE  /\ s \in Live
           /\ Head(call.script) = Link(port) =>
                port \notin ports[s] /\ ports'[s] = ports[s] \cup {port}
           /\ Head(call.script) = Unlink(port) =>
                port \in ports[s] /\ ports'[s] = ports[s] \ {port}
  <1>1. /\ Link(port).add /\ Link(port).port = port
        /\ ~Unlink(port).add /\ Unlink(port).port = port
    BY DEF Link, Unlink
  <1> QED
    BY <1>1, RelinkFacts DEF Relink, LinkPossible

\* A script goes on with its tail, or with its rollback.
LEMMA ScriptFields ==
    ASSUME IsCall(call), call.faults \in Nat, NEW script
    PROVE  LET c == [call EXCEPT !.script = script]
               d == Failing([call EXCEPT !.script = script, !.undo = TRUE])
           IN  /\ c.pc = call.pc /\ c.new = call.new /\ c.old = call.old /\ c.undo = call.undo
               /\ c.faults = call.faults /\ c.script = script
               /\ d.pc = call.pc /\ d.new = call.new /\ d.old = call.old /\ d.undo = TRUE
               /\ d.faults = call.faults + 1 /\ d.script = script
  <1> DEFINE e == [call EXCEPT !.script = script, !.undo = TRUE]
  <1>1. /\ IsCall(e) /\ e.undo = TRUE /\ e.faults = call.faults /\ e.script = script
        /\ e.pc = call.pc /\ e.new = call.new /\ e.old = call.old
    BY DEF IsCall
  <1> HIDE DEF e
  <1>2. e # NoCall
    BY <1>1 DEF NoCall
  <1>3. Failing(e) = [e EXCEPT !.faults = e.faults + 1]
    BY <1>2 DEF Failing
  <1>4. /\ Failing(e).undo = TRUE /\ Failing(e).faults = call.faults + 1
        /\ Failing(e).script = script /\ Failing(e).pc = call.pc
        /\ Failing(e).new = call.new /\ Failing(e).old = call.old
    BY <1>1, <1>3 DEF IsCall
  <1>5. LET c == [call EXCEPT !.script = script]
        IN  /\ c.pc = call.pc /\ c.new = call.new /\ c.old = call.old /\ c.undo = call.undo
            /\ c.faults = call.faults /\ c.script = script
    BY DEF IsCall
  <1> QED
    BY <1>4, <1>5 DEF e

\* A script that runs leaves the links of the other streams alone.
LEMMA OtherLinksKept ==
    ASSUME WorldShape, AllLinked, NEW s \in StreamIds, NEW rollback, NEW done, NEW failed,
           RunLinks(s, rollback, done, failed), s \in Sound' => Linked(ports'[s])
    PROVE  Sound' \subseteq Sound /\ AllLinked'
  <1>1. /\ UNCHANGED streams /\ (\A t \in StreamIds \ {s} : ports'[t] = ports[t])
        /\ late \subseteq late'
    BY LinksOfOne
  <1>2. Sound' \subseteq Sound /\ Sound \subseteq StreamIds
    BY <1>1 DEF Live, Sound
  <1> QED
    BY <1>1, <1>2 DEF AllLinked

\* route_zoom_with_pipewire_links makes the new links before it removes the old ones, and
\* its rollback the old ones before it removes the new.
LEMMA LinkingKept ==
    ASSUME MaxFaults <= 1, ChannelInv, NEW s \in Sound, s \notin late', Linking(call, ports[s]),
           NEW done, RunLinks(s, RouteUndo, done, NoCall)
    PROVE  /\ Linked(ports'[s])
           /\ \/ call' = done \/ call' = NoCall
              \/ /\ call'.pc = call.pc /\ call'.new = call.new /\ call'.faults \in Nat
                 /\ Linking(call', ports'[s])
  <1> DEFINE p == ports[s]
             q == ports'[s]
             Goes == /\ call'.pc = call.pc /\ call'.new = call.new /\ call'.faults \in Nat
                     /\ Linking(call', q)
  <1>1. /\ IsCall(call) /\ call.faults \in Nat /\ call.undo \in BOOLEAN /\ WorldShape
        /\ s \in StreamIds /\ s \in Live /\ Linked(p)
    BY PlaceParts DEF ChannelInv, ChannelOK, AllLinked, Sound, Live
  <1>2. CASE ~call.undo
    <2>1. \/ LinkDone(s) /\ call' = AfterLink(done)
          \/ /\ LinkRefused(s)
             /\ LET back == RouteUndo[5 - Len(call.script)]
                IN  call' = Failing(IF back = <<>> THEN NoCall
                                    ELSE [call EXCEPT !.script = back, !.undo = TRUE])
      BY <1>2 DEF RunLinks, LinkTimedOut, Continue
    <2>2. LinkRefused(s) => q = p
      BY DEF LinkRefused, world
    <2>3. ASSUME NEW script, call' = [call EXCEPT !.script = script]
          PROVE  /\ call'.pc = call.pc /\ call'.new = call.new /\ call'.faults \in Nat
                 /\ ~call'.undo /\ call'.script = script
      BY <1>1, <1>2, <2>3, ScriptFields
    <2>4. ASSUME NEW script, call' = Failing([call EXCEPT !.script = script, !.undo = TRUE])
          PROVE  /\ call'.pc = call.pc /\ call'.new = call.new /\ call'.faults \in Nat
                 /\ call'.undo /\ call'.script = script /\ call'.faults = call.faults + 1
      <3>1. /\ call'.pc = call.pc /\ call'.new = call.new /\ call'.undo = TRUE
            /\ call'.script = script /\ call'.faults = call.faults + 1
        BY <1>1, <2>4, ScriptFields
      <3> QED
        BY <1>1, <3>1
    <2>5. CASE call.script = RouteScript
      <3>1. Len(call.script) # 1 /\ 5 - Len(call.script) = 1 /\ Head(call.script) = Link("rL")
            /\ Tail(call.script) = RouteLeft3
        <4>1. Len(call.script) = 4
          BY <2>5, RouteScriptParts, Zenon
        <4> QED
          BY <2>5, <4>1, RouteScriptParts
      <3>2. CASE LinkDone(s) /\ call' = AfterLink(done)
        <4>1. "rL" \notin p /\ q = p \cup {"rL"}
          BY <1>1, <3>1, <3>2, LinkEffect DEF LinkDone
        <4>2. call' = [call EXCEPT !.script = RouteLeft3]
          BY <3>1, <3>2 DEF AfterLink
        <4>3. Linked(q) /\ {"oL", "rL"} \subseteq q
          BY <1>1, <4>1 DEF Linked
        <4> QED
          BY <2>3, <4>2, <4>3 DEF Linking
      <3>3. CASE LinkRefused(s) /\ call' = Failing(NoCall)
        BY <1>1, <2>2, <3>3 DEF Failing
      <3> QED
        BY <2>1, <3>1, <3>2, <3>3, RouteScriptParts
    <2>6. CASE call.script = RouteLeft3 /\ {"oL", "rL"} \subseteq p
      <3>1. Len(call.script) # 1 /\ 5 - Len(call.script) = 2 /\ Head(call.script) = Link("rR")
            /\ Tail(call.script) = RouteLeft2
        <4>1. Len(call.script) = 3
          BY <2>6, RouteScriptParts, Zenon
        <4> QED
          BY <2>6, <4>1, RouteScriptParts
      <3>2. CASE LinkDone(s) /\ call' = AfterLink(done)
        <4>1. "rR" \notin p /\ q = p \cup {"rR"}
          BY <1>1, <3>1, <3>2, LinkEffect DEF LinkDone
        <4>2. call' = [call EXCEPT !.script = RouteLeft2]
          BY <3>1, <3>2 DEF AfterLink
        <4>3. Linked(q) /\ Ports \subseteq q
          BY <1>1, <2>6, <4>1 DEF Linked, Ports
        <4> QED
          BY <2>3, <4>2, <4>3 DEF Linking
      <3>3. CASE /\ LinkRefused(s)
                 /\ call' = Failing([call EXCEPT !.script = BackOne, !.undo = TRUE])
        BY <1>1, <2>2, <2>4, <2>6, <3>3 DEF Linking
      <3> QED
        BY <2>1, <3>1, <3>2, <3>3, RouteScriptParts
    <2>7. CASE call.script = RouteLeft2 /\ Ports \subseteq p
      <3>1. /\ Len(call.script) # 1 /\ 5 - Len(call.script) = 3
            /\ Head(call.script) = Unlink("oL") /\ Tail(call.script) = RouteLeft1
        <4>1. Len(call.script) = 2
          BY <2>7, RouteScriptParts, Zenon
        <4> QED
          BY <2>7, <4>1, RouteScriptParts
      <3>2. CASE LinkDone(s) /\ call' = AfterLink(done)
        <4>1. q = p \ {"oL"}
          BY <1>1, <3>1, <3>2, LinkEffect DEF LinkDone
        <4>2. call' = [call EXCEPT !.script = RouteLeft1]
          BY <3>1, <3>2 DEF AfterLink
        <4>3. Linked(q) /\ {"oR", "rL", "rR"} \subseteq q /\ "oL" \notin q
          BY <2>7, <4>1 DEF Linked, Ports
        <4> QED
          BY <2>3, <4>2, <4>3 DEF Linking
      <3>3. CASE /\ LinkRefused(s)
                 /\ call' = Failing([call EXCEPT !.script = BackBoth, !.undo = TRUE])
        BY <1>1, <2>2, <2>4, <2>7, <3>3 DEF Linking, Ports
      <3> QED
        BY <2>1, <3>1, <3>2, <3>3, RouteScriptParts
    <2>8. CASE call.script = RouteLeft1 /\ {"oR", "rL", "rR"} \subseteq p /\ "oL" \notin p
      <3>1. Len(call.script) = 1 /\ 5 - Len(call.script) = 4 /\ Head(call.script) = Unlink("oR")
        <4>1. Len(call.script) = 1
          BY <2>8, RouteScriptParts, Zenon
        <4> QED
          BY <2>8, <4>1, RouteScriptParts
      <3>2. CASE LinkDone(s) /\ call' = AfterLink(done)
        <4>1. q = p \ {"oR"}
          BY <1>1, <3>1, <3>2, LinkEffect DEF LinkDone
        <4>2. call' = done
          BY <3>1, <3>2 DEF AfterLink
        <4> QED
          BY <2>8, <4>1, <4>2 DEF Linked
      <3>3. CASE /\ LinkRefused(s)
                 /\ call' = Failing([call EXCEPT !.script = BackAll, !.undo = TRUE])
        <4>1. call'.faults >= MaxFaults
          <5>1. MaxFaults \in Nat
            BY RoutingAssumption
          <5>2. call'.faults = call.faults + 1
            BY <2>4, <3>3
          <5> QED
            BY <1>1, <5>1, <5>2
        <4> QED
          BY <1>1, <2>2, <2>4, <2>8, <3>3, <4>1 DEF Linking
      <3> QED
        BY <2>1, <3>1, <3>2, <3>3, RouteScriptParts
    <2> QED
      BY <1>2, <2>5, <2>6, <2>7, <2>8 DEF Linking
  <1>3. CASE call.undo
    <2>1. (LinkDone(s) \/ LinkRefused(s)) /\ call' = AfterLink(NoCall)
      BY <1>3 DEF RunLinks, LinkTimedOut, Continue
    <2>2. LinkRefused(s) => q = p
      BY DEF LinkRefused, world
    <2>3. ASSUME NEW script, call' = [call EXCEPT !.script = script]
          PROVE  /\ call'.pc = call.pc /\ call'.new = call.new /\ call'.faults \in Nat
                 /\ call'.undo /\ call'.script = script
      BY <1>1, <1>3, <2>3, ScriptFields
    <2>4. CASE call.script = BackOne /\ "oL" \in p
      <3>1. Len(call.script) = 1 /\ Head(call.script) = Unlink("rL")
        BY <2>4, RouteScriptParts
      <3>2. q = p \/ q = p \ {"rL"}
        BY <1>1, <2>1, <2>2, <3>1, LinkEffect DEF LinkDone
      <3> QED
        BY <1>1, <2>1, <2>4, <3>1, <3>2 DEF AfterLink, Linked
    <2>5. CASE call.script = BackLast /\ {"oL", "oR"} \subseteq p
      <3>1. Len(call.script) = 1 /\ Head(call.script) = Unlink("rR")
        BY <2>5, RouteScriptParts
      <3>2. q = p \/ q = p \ {"rR"}
        BY <1>1, <2>1, <2>2, <3>1, LinkEffect DEF LinkDone
      <3> QED
        BY <1>1, <2>1, <2>5, <3>1, <3>2 DEF AfterLink, Linked
    <2>6. CASE call.script = BackBoth /\ {"oL", "oR"} \subseteq p
      <3>1. /\ Len(call.script) # 1 /\ Head(call.script) = Unlink("rL")
            /\ Tail(call.script) = BackLast
        <4>1. Len(call.script) = 2
          BY <2>6, RouteScriptParts, Zenon
        <4> QED
          BY <2>6, <4>1, RouteScriptParts
      <3>2. q = p \/ q = p \ {"rL"}
        BY <1>1, <2>1, <2>2, <3>1, LinkEffect DEF LinkDone
      <3>3. call' = [call EXCEPT !.script = BackLast]
        BY <2>1, <3>1 DEF AfterLink
      <3>4. Linked(q) /\ {"oL", "oR"} \subseteq q
        BY <2>6, <3>2 DEF Linked
      <3> QED
        BY <2>3, <3>3, <3>4 DEF Linking
    <2>7. CASE /\ call.script = BackAll /\ {"oR", "rL", "rR"} \subseteq p /\ "oL" \notin p
               /\ call.faults >= MaxFaults
      <3>1. /\ Len(call.script) # 1 /\ Head(call.script) = Link("oL")
            /\ Tail(call.script) = BackBoth
        <4>1. Len(call.script) = 3
          BY <2>7, RouteScriptParts, Zenon
        <4> QED
          BY <2>7, <4>1, RouteScriptParts
      <3>2. LinkPossible(s) /\ ~MayFail
        <4>1. Head(call.script).add /\ Head(call.script).port = "oL"
          BY <3>1 DEF Link
        <4>2. ~MayFail
          BY <1>1, <2>7, RoutingAssumption DEF MayFail
        <4> QED
          BY <1>1, <2>7, <4>1, <4>2 DEF LinkPossible
      <3>3. q = p \cup {"oL"}
        BY <1>1, <2>1, <3>1, <3>2, LinkEffect DEF LinkDone, LinkRefused
      <3>4. call' = [call EXCEPT !.script = BackBoth]
        BY <2>1, <3>1 DEF AfterLink
      <3>5. Linked(q) /\ {"oL", "oR"} \subseteq q
        BY <2>7, <3>3 DEF Linked
      <3> QED
        BY <2>3, <3>4, <3>5 DEF Linking
    <2> QED
      BY <1>3, <2>4, <2>5, <2>6, <2>7 DEF Linking
  <1> QED
    BY <1>1, <1>2, <1>3

\* The commands of the script that takes the links back, with their rollbacks.
LEMMA RestoreParts ==
    /\ Len(RestoreScript) = 4 /\ Head(RestoreScript) = Link("oL")
    /\ Tail(RestoreScript) = RestoreLeft3
    /\ Len(RestoreLeft3) = 3 /\ Head(RestoreLeft3) = Link("oR")
    /\ Tail(RestoreLeft3) = BackBoth
    /\ RestoreScripts = {RestoreScript, RestoreLeft3, BackBoth, BackLast}
    /\ RestoreUndo[1] = <<>> /\ RestoreUndo[2] = <<Unlink("oL")>>
    /\ RestoreUndo[3] = <<>> /\ RestoreUndo[4] = <<>> /\ <<Unlink("oL")>> # <<>>
  <1>1. /\ Len(RestoreScript) = 4 /\ Head(RestoreScript) = Link("oL")
        /\ Tail(RestoreScript) = RestoreLeft3
    BY DEF RestoreScript, RestoreLeft3
  <1>2. /\ Len(RestoreLeft3) = 3 /\ Head(RestoreLeft3) = Link("oR")
        /\ Tail(RestoreLeft3) = BackBoth
    BY DEF RestoreLeft3, BackBoth
  <1>3. RestoreScripts = {RestoreScript, RestoreLeft3, BackBoth, BackLast}
    BY DEF RestoreScripts, RestoreLeft3, BackBoth, BackLast
  <1>4. /\ RestoreUndo[1] = <<>> /\ RestoreUndo[2] = <<Unlink("oL")>>
        /\ RestoreUndo[3] = <<>> /\ RestoreUndo[4] = <<>> /\ <<Unlink("oL")>> # <<>>
    BY DEF RestoreUndo
  <1> QED
    BY <1>1, <1>2, <1>3, <1>4

\* The links to the original sink are made again before those to REMOTE_IN are removed.
LEMMA UnlinkingKept ==
    ASSUME ChannelInv, NEW s \in Sound, s \notin late', Restoring(call, s),
           Unlinking(call, ports[s]), NEW done, NEW failed, RunLinks(s, RestoreUndo, done, failed)
    PROVE  /\ Linked(ports'[s])
           /\ \/ call' = done \/ call' = failed \/ call' = Failing(failed)
              \/ /\ call'.pc = call.pc /\ call'.new = call.new /\ call'.old = call.old
                 /\ call'.faults \in Nat /\ Unlinking(call', ports'[s])
  <1> DEFINE p == ports[s]
             q == ports'[s]
  <1>1. /\ IsCall(call) /\ call.faults \in Nat /\ call.undo \in BOOLEAN /\ WorldShape
        /\ s \in StreamIds /\ s \in Live /\ Linked(p)
    BY PlaceParts DEF ChannelInv, ChannelOK, AllLinked, Sound, Live
  <1>2. LinkRefused(s) => q = p
    BY DEF LinkRefused, world
  <1>3. CASE ~call.undo
    <2>1. \/ LinkDone(s) /\ call' = AfterLink(done)
          \/ /\ LinkRefused(s)
             /\ LET back == RestoreUndo[5 - Len(call.script)]
                IN  call' = Failing(IF back = <<>> THEN failed
                                    ELSE [call EXCEPT !.script = back, !.undo = TRUE])
      BY <1>3 DEF RunLinks, LinkTimedOut, Continue
    <2>2. ASSUME NEW script, call' = [call EXCEPT !.script = script]
          PROVE  /\ call'.pc = call.pc /\ call'.new = call.new /\ call'.old = call.old
                 /\ call'.faults \in Nat /\ ~call'.undo /\ call'.script = script
      BY <1>1, <1>3, <2>2, ScriptFields
    <2>3. call.script \in {RestoreScript, RestoreLeft3, BackBoth, BackLast}
      BY <1>3, RestoreParts DEF Restoring
    <2>4. CASE call.script = RestoreScript
      <3>1. Len(call.script) # 1 /\ 5 - Len(call.script) = 1 /\ Head(call.script) = Link("oL")
            /\ Tail(call.script) = RestoreLeft3
        <4>1. Len(call.script) = 4
          BY <2>4, RestoreParts, Zenon
        <4> QED
          BY <2>4, <4>1, RestoreParts
      <3>2. CASE LinkDone(s) /\ call' = AfterLink(done)
        <4>1. "oL" \notin p /\ q = p \cup {"oL"}
          BY <1>1, <3>1, <3>2, LinkEffect DEF LinkDone
        <4>2. call' = [call EXCEPT !.script = RestoreLeft3]
          BY <3>1, <3>2 DEF AfterLink
        <4>3. Linked(q) /\ {"oL", "rL"} \subseteq q
          BY <1>1, <4>1 DEF Linked
        <4>4. ~call'.undo /\ Len(call'.script) = 3
          BY <2>2, <4>2, RestoreParts
        <4>5. Unlinking(call', q)
          BY <4>3, <4>4 DEF Unlinking
        <4> QED
          BY <2>2, <4>2, <4>3, <4>5
      <3>3. CASE LinkRefused(s) /\ call' = Failing(failed)
        BY <1>1, <1>2, <3>3
      <3> QED
        BY <2>1, <3>1, <3>2, <3>3, RestoreParts
    <2>5. CASE call.script = RestoreLeft3
      <3>1. Len(call.script) # 1 /\ 5 - Len(call.script) = 2 /\ Head(call.script) = Link("oR")
            /\ Tail(call.script) = BackBoth /\ Len(call.script) = 3
        <4>1. Len(call.script) = 3
          BY <2>5, RestoreParts, Zenon
        <4> QED
          BY <2>5, <4>1, RestoreParts
      <3>2. {"oL", "rL"} \subseteq p
        BY <1>3, <3>1 DEF Unlinking
      <3>3. CASE LinkDone(s) /\ call' = AfterLink(done)
        <4>1. q = p \cup {"oR"}
          BY <1>1, <3>1, <3>3, LinkEffect DEF LinkDone
        <4>2. call' = [call EXCEPT !.script = BackBoth]
          BY <3>1, <3>3 DEF AfterLink
        <4>3. Linked(q) /\ {"oL", "oR"} \subseteq q
          BY <3>2, <4>1 DEF Linked
        <4>4. ~call'.undo /\ Len(call'.script) = 2
          BY <2>2, <4>2, RouteScriptParts
        <4>5. Unlinking(call', q)
          BY <4>3, <4>4 DEF Unlinking
        <4> QED
          BY <2>2, <4>2, <4>3, <4>5
      <3>4. CASE /\ LinkRefused(s)
                 /\ call' = Failing([call EXCEPT !.script = <<Unlink("oL")>>, !.undo = TRUE])
        <4>1. /\ call'.pc = call.pc /\ call'.new = call.new /\ call'.old = call.old
              /\ call'.undo = TRUE /\ call'.faults = call.faults + 1
          BY <1>1, <3>4, ScriptFields
        <4>2. call'.faults \in Nat
          BY <1>1, <4>1
        <4> QED
          BY <1>1, <1>2, <3>2, <3>4, <4>1, <4>2 DEF Unlinking
      <3> QED
        BY <2>1, <3>1, <3>3, <3>4, RestoreParts
    <2>6. CASE call.script = BackBoth
      <3>1. /\ Len(call.script) # 1 /\ 5 - Len(call.script) = 3 /\ Len(call.script) < 3
            /\ Head(call.script) = Unlink("rL") /\ Tail(call.script) = BackLast
        <4>1. Len(call.script) = 2
          BY <2>6, RouteScriptParts, Zenon
        <4> QED
          BY <2>6, <4>1, RouteScriptParts
      <3>2. {"oL", "oR"} \subseteq p
        BY <1>3, <3>1 DEF Unlinking
      <3>3. CASE LinkDone(s) /\ call' = AfterLink(done)
        <4>1. q = p \ {"rL"}
          BY <1>1, <3>1, <3>3, LinkEffect DEF LinkDone
        <4>2. call' = [call EXCEPT !.script = BackLast]
          BY <3>1, <3>3 DEF AfterLink
        <4>3. Linked(q) /\ {"oL", "oR"} \subseteq q
          BY <3>2, <4>1 DEF Linked
        <4>4. ~call'.undo /\ Len(call'.script) = 1
          BY <2>2, <4>2, RouteScriptParts
        <4>5. Unlinking(call', q)
          BY <4>3, <4>4 DEF Unlinking
        <4> QED
          BY <2>2, <4>2, <4>3, <4>5
      <3>4. CASE LinkRefused(s) /\ call' = Failing(failed)
        BY <1>1, <1>2, <3>4
      <3> QED
        BY <2>1, <3>1, <3>3, <3>4, RestoreParts
    <2>7. CASE call.script = BackLast
      <3>1. /\ Len(call.script) = 1 /\ 5 - Len(call.script) = 4 /\ Len(call.script) < 3
            /\ Head(call.script) = Unlink("rR")
        <4>1. Len(call.script) = 1
          BY <2>7, RouteScriptParts, Zenon
        <4> QED
          BY <2>7, <4>1, RouteScriptParts
      <3>2. {"oL", "oR"} \subseteq p
        BY <1>3, <3>1 DEF Unlinking
      <3>3. CASE LinkDone(s) /\ call' = AfterLink(done)
        <4>1. q = p \ {"rR"}
          BY <1>1, <3>1, <3>3, LinkEffect DEF LinkDone
        <4>2. call' = done
          BY <3>1, <3>3 DEF AfterLink
        <4> QED
          BY <3>2, <4>1, <4>2 DEF Linked
      <3>4. CASE LinkRefused(s) /\ call' = Failing(failed)
        BY <1>1, <1>2, <3>4
      <3> QED
        BY <2>1, <3>1, <3>3, <3>4, RestoreParts
    <2> QED
      BY <2>3, <2>4, <2>5, <2>6, <2>7
  <1>4. CASE call.undo
    <2>1. Len(call.script) = 1 /\ Head(call.script) = Unlink("oL") /\ "rL" \in p
      <3>1. call.script = <<Unlink("oL")>> /\ "rL" \in p
        BY <1>4 DEF Restoring, Unlinking
      <3> QED
        BY <3>1, RestoreUndoParts
    <2>2. (LinkDone(s) \/ LinkRefused(s)) /\ call' = failed
      BY <1>4, <2>1 DEF RunLinks, Continue, AfterLink
    <2>3. q = p \/ q = p \ {"oL"}
      BY <1>1, <1>2, <2>1, <2>2, LinkEffect DEF LinkDone
    <2> QED
      BY <1>1, <2>1, <2>2, <2>3 DEF Linked
  <1> QED
    BY <1>1, <1>3, <1>4

\* The scripts of the calls run, whether their stream is still there or not.
LEMMA ScriptsKeepChannels ==
    ASSUME ChannelInv, NEW s \in StreamIds, NEW rollback, NEW done, NEW failed,
           RunLinks(s, rollback, done, failed), s \notin Sound'
    PROVE  /\ Sound' \subseteq Sound /\ AllLinked'
           /\ \/ call' = done \/ call' = failed \/ call' = Failing(failed)
              \/ /\ call'.pc = call.pc /\ call'.new = call.new /\ call'.old = call.old
                 /\ call'.faults \in Nat
  <1>1. IsCall(call) /\ call.faults \in Nat /\ WorldShape /\ AllLinked
    BY PlaceParts DEF ChannelInv, ChannelOK
  <1>2. Sound' \subseteq Sound /\ AllLinked'
    BY <1>1, OtherLinksKept
  <1>3. ASSUME NEW script, call' = [call EXCEPT !.script = script]
        PROVE  /\ call'.pc = call.pc /\ call'.new = call.new /\ call'.old = call.old
               /\ call'.faults \in Nat
    BY <1>1, <1>3, ScriptFields
  <1>4. ASSUME NEW script, call' = Failing([call EXCEPT !.script = script, !.undo = TRUE])
        PROVE  /\ call'.pc = call.pc /\ call'.new = call.new /\ call'.old = call.old
               /\ call'.faults \in Nat
    <2>1. /\ call'.pc = call.pc /\ call'.new = call.new /\ call'.old = call.old
          /\ call'.faults = call.faults + 1
      BY <1>1, <1>4, ScriptFields
    <2> QED
      BY <1>1, <2>1
  <1>5. CASE \E next \in {done, failed} : call' = AfterLink(next)
    BY <1>2, <1>3, <1>5 DEF AfterLink
  <1>6. CASE \E back : call' = Failing(IF back = <<>> THEN failed
                                ELSE [call EXCEPT !.script = back, !.undo = TRUE])
    BY <1>2, <1>4, <1>6
  <1> QED
    BY <1>5, <1>6 DEF RunLinks, Continue

\* A call that returns, or goes on at a label without links.
LEMMA QuietChannels ==
    ASSUME PlaceInv', AllLinked', call'.faults \in Nat,
           call'.pc \notin {"link", "restoreOld", "undoMove", "undoRoute"}
    PROVE  ChannelInv'
  <1>1. ChannelOK(call)'
    BY DEF ChannelOK
  <1> QED
    BY <1>1 DEF ChannelInv

\* A call that begins to take links back.
LEMMA FreshChannels ==
    ASSUME PlaceInv', AllLinked', call'.faults \in Nat, call'.pc # "link",
           call'.undo \in BOOLEAN, ~call'.undo,
           call'.pc = "restoreOld" /\ call'.old.method = "PipeWireLinks" =>
              call'.script = RestoreScript,
           call'.pc \in {"undoMove", "undoRoute"} => call'.script = RestoreScript
    PROVE  ChannelInv'
  <1>1. call'.script = RestoreScript => ~(Len(call'.script) = 3) /\ ~(Len(call'.script) < 3)
    <2> SUFFICES ASSUME call'.script = RestoreScript
                 PROVE  ~(Len(call'.script) = 3) /\ ~(Len(call'.script) < 3)
      OBVIOUS
    <2>1. Len(call'.script) = 4
      BY RestoreParts, Zenon
    <2> QED
      BY <2>1
  <1>2. ChannelOK(call)'
    BY <1>1 DEF ChannelOK, Unlinking
  <1> QED
    BY <1>2 DEF ChannelInv

\* The streams and their links are as before.
LEMMA SameLinks ==
    ASSUME AllLinked, UNCHANGED <<streams, ports, late>>
    PROVE  AllLinked'
  BY DEF AllLinked, Sound, Live

\* A stream that is moved has both its channels on the sink it is moved to.
LEMMA MovedIsLinked ==
    ASSUME WorldShape, AllLinked, NEW s \in StreamIds, NEW sink, PutStream(s, sink)
    PROVE  AllLinked'
  <1>1. /\ \A t \in StreamIds \ {s} : streams'[t] = streams[t] /\ ports'[t] = ports[t]
        /\ ports'[s] \in {{"rL", "rR"}, {"oL", "oR"}}
    BY DEF PutStream, WorldShape
  <1>2. late' = late \ {s}
    BY DEF PutStream
  <1> QED
    BY <1>1, <1>2 DEF AllLinked, Sound, Live, Linked

\* No call has failed commands.
LEMMA NoCallFaults == NoCall.faults \in Nat /\ NoCall.pc = "idle"
  BY DEF NoCall

\* The failed commands of a call are counted.
LEMMA FaultsCounted ==
    ASSUME NEW c, IsCall(c), c.faults \in Nat
    PROVE  Failing(c).faults \in Nat
  <1>1. CASE c = NoCall
    BY <1>1 DEF Failing
  <1>2. CASE c # NoCall
    <2>1. Failing(c).faults = c.faults + 1
      BY <1>2 DEF Failing, IsCall
    <2> QED
      BY <2>1
  <1> QED
    BY <1>1, <1>2

\* The calls begin with all of their links before them.
LEMMA BeginsChannels ==
    ChannelInv /\ PlaceInv' /\ (Refresh \/ (\E s \in StreamIds : ManualRoute(s)) \/ RestoreOnStop)
      => ChannelInv'
  <1> SUFFICES ASSUME ChannelInv, PlaceInv',
                      Refresh \/ (\E s \in StreamIds : ManualRoute(s)) \/ RestoreOnStop
               PROVE  ChannelInv'
    OBVIOUS
  <1> DEFINE Labels == {"move", "persistSame", "dropOutputs", "restoreOld", "moveAgain",
                        "routeOutputs", "moveStale"}
             Begun(c) == \E label \in Labels : \E n, old, b :
                            \/ c = CallFor(label, n, old)
                            \/ c = [CallFor(label, n, old) EXCEPT !.ending = b]
                            \/ c = [CallFor(label, n, old) EXCEPT !.reused = b]
  <1>1. ASSUME NEW s PROVE Begun(RouteCandidate(s))
    <2>1. \E label \in Labels : \E n, old : RouteCandidate(s) = CallFor(label, n, old)
      BY DEF RouteCandidate
    <2> QED
      BY <2>1
  <1>2. ASSUME NEW s PROVE Begun(KeepActive(s))
    <2>1. CASE should_yield_browser_fallback(s) /\ single_call_like_replacement # 0
      <3>1. KeepActive(s) = RouteCandidate(single_call_like_replacement)
        BY <2>1 DEF KeepActive
      <3> HIDE DEF Begun
      <3> QED
        BY <1>1, <3>1
    <2>2. CASE ~(should_yield_browser_fallback(s) /\ single_call_like_replacement # 0)
      <3>1. \E label \in Labels : \E n, old : KeepActive(s) = CallFor(label, n, old)
        BY <2>2 DEF KeepActive
      <3> QED
        BY <3>1
    <2> QED
      BY <2>1, <2>2
  <1>3. Begun(RestoreCall)
    <2>1. \E label \in Labels : \E n, old :
             RestoreCall = [CallFor(label, n, old) EXCEPT !.ending = TRUE]
      BY DEF RestoreCall
    <2>2. PICK label \in Labels : \E n, old :
             RestoreCall = [CallFor(label, n, old) EXCEPT !.ending = TRUE]
      BY <2>1
    <2>3. PICK n, old : RestoreCall = [CallFor(label, n, old) EXCEPT !.ending = TRUE]
      BY <2>2
    <2> QED
      BY <2>3, Zenon
  <1>4. Begun(CallFor("moveStale", StaleRemote, NoRoute))
    OBVIOUS
  <1>5. Begun([CallFor("dropOutputs", Successor, active)
                  EXCEPT !.reused = active.sid \in Candidates])
    OBVIOUS
  <1>6. Begun(call')
    <2> HIDE DEF Begun
    <2>1. CASE Refresh
      BY <1>1, <1>2, <1>3, <1>4, <1>5, <2>1 DEF Refresh, Continue
    <2>2. CASE (\E s \in StreamIds : ManualRoute(s)) \/ RestoreOnStop
      BY <1>1, <1>3, <2>2 DEF ManualRoute, RestoreOnStop, Continue
    <2> QED
      BY <2>1, <2>2
  <1>7. PICK label, n, old, b :
           /\ label \in Labels
           /\ \/ call' = CallFor(label, n, old)
              \/ call' = [CallFor(label, n, old) EXCEPT !.ending = b]
              \/ call' = [CallFor(label, n, old) EXCEPT !.reused = b]
    BY <1>6
  <1> DEFINE c == CallFor(label, n, old)
  <1>8. /\ IsCall(c) /\ c.pc = label /\ c.old = old /\ c.undo \in BOOLEAN /\ ~c.undo
        /\ c.faults = 0
        /\ old.method = "PipeWireLinks" => c.script = RestoreScript
    BY CallForShape, CallForFields
  <1> HIDE DEF c
  <1>9. /\ call'.pc = c.pc /\ call'.old = c.old /\ call'.undo = c.undo
        /\ call'.faults = c.faults /\ call'.script = c.script
    BY <1>7, <1>8 DEF c, IsCall
  <1>10. AllLinked'
    BY SameLinks DEF ChannelInv, Refresh, ManualRoute, RestoreOnStop, world
  <1>11. call'.pc # "link" /\ call'.pc \notin {"undoMove", "undoRoute"}
    BY <1>7, <1>8, <1>9
  <1>12. call'.faults \in Nat /\ call'.undo \in BOOLEAN /\ ~call'.undo
    BY <1>8, <1>9
  <1>13. call'.old.method = "PipeWireLinks" => call'.script = RestoreScript
    BY <1>8, <1>9
  <1> QED
    BY <1>10, <1>11, <1>12, <1>13, FreshChannels

\* The commands that leave the links alone.
LEMMA OtherCommandsChannels ==
    /\ ChannelInv /\ PlaceInv'
    /\ \/ DropOutput \/ OutputsDropped \/ ClearOld \/ ClearLast \/ PersistSame
       \/ OutputsRouted
    => ChannelInv'
  <1> SUFFICES ASSUME ChannelInv, PlaceInv',
                      \/ DropOutput \/ OutputsDropped \/ ClearOld \/ ClearLast
                      \/ PersistSame \/ OutputsRouted
               PROVE  ChannelInv'
    OBVIOUS
  <1>1. AllLinked'
    BY SameLinks DEF ChannelInv, DropOutput, OutputsDropped, ClearOld, ClearLast,
                     PersistSame, OutputsRouted, world, MoveCapture, MoveCaptureFails
  <1>2. IsCall(call) /\ call.faults \in Nat
    BY PlaceParts DEF ChannelInv, ChannelOK
  <1>3. CASE call' = NoCall
    BY <1>1, <1>3, NoCallFaults, QuietChannels
  <1>4. CASE \E label \in {"clearEnd", "routeOutputs"} : call' = Goto(label)
    BY <1>1, <1>2, <1>4, GotoShape, GotoFields, QuietChannels
  <1>5. CASE call' = [Goto("clearOld") EXCEPT !.moved = {}]
    <2>1. call'.pc = "clearOld" /\ call'.faults = call.faults
      BY <1>2, <1>5 DEF IsCall, Goto
    <2> QED
      BY <1>1, <1>2, <2>1, QuietChannels
  <1>6. CASE call' = [Goto("move") EXCEPT !.script = <<>>]
    <2>1. call'.pc = "move" /\ call'.faults = call.faults
      BY <1>2, <1>6 DEF IsCall, Goto
    <2> QED
      BY <1>1, <1>2, <2>1, QuietChannels
  <1>7. CASE call.pc = "dropOutputs" /\ \E m : call' = [call EXCEPT !.moved = m]
    <2>1. call'.pc = "dropOutputs" /\ call'.faults = call.faults
      BY <1>2, <1>7 DEF IsCall
    <2> QED
      BY <1>1, <1>2, <2>1, QuietChannels
  <1> QED
    BY <1>3, <1>4, <1>5, <1>6, <1>7
       DEF DropOutput, OutputsDropped, ClearOld, ClearLast, PersistSame, OutputsRouted,
           Continue, Return, At

\* The commands that move a stream.
LEMMA MovesChannels ==
    ChannelInv /\ PlaceInv' /\ (MoveNew \/ MoveAgain \/ MoveStale) => ChannelInv'
  <1> SUFFICES ASSUME ChannelInv, PlaceInv', MoveNew \/ MoveAgain \/ MoveStale
               PROVE  ChannelInv'
    OBVIOUS
  <1>1. /\ IsCall(call) /\ call.faults \in Nat /\ WorldShape /\ AllLinked
        /\ call.undo \in BOOLEAN
    BY PlaceParts DEF ChannelInv, ChannelOK
  <1>2. AllLinked'
    <2>1. CASE UNCHANGED world
      BY <1>1, <2>1, SameLinks DEF world
    <2>2. ASSUME NEW s \in Live, NEW sink, PutStream(s, sink) PROVE AllLinked'
      BY <1>1, <2>2, MovedIsLinked DEF Live
    <2> QED
      BY <2>1, <2>2 DEF MoveNew, MoveAgain, MoveStale, MoveDone, MoveRefused, MoveTimedOut
  <1>3. CASE call' = NoCall
    BY <1>2, <1>3, NoCallFaults, QuietChannels
  <1>4. CASE \E label \in {"persist", "persistSame", "clearStale"} : call' = Goto(label)
    BY <1>1, <1>2, <1>4, GotoShape, GotoFields, QuietChannels
  <1>5. CASE call.pc = "move" /\ call' = [Goto("link") EXCEPT !.script = RouteScript]
    <2>1. ~call.undo
      BY <1>5 DEF ChannelInv, PlaceInv, PlaceOK, ScriptShape
    <2>2. /\ call'.pc = "link" /\ call'.faults = call.faults /\ call'.undo = call.undo
          /\ call'.script = RouteScript
      BY <1>1, <1>5 DEF IsCall, Goto
    <2>3. ChannelOK(call)'
      BY <1>1, <2>1, <2>2 DEF ChannelOK, Linking
    <2> QED
      BY <1>2, <2>3 DEF ChannelInv
  <1> QED
    BY <1>3, <1>4, <1>5 DEF MoveNew, MoveAgain, MoveStale, Continue, Return, At

\* The journal and the captures of a new route: a failure begins to take it back.
LEMMA UndoneChannels ==
    ChannelInv /\ PlaceInv' /\ (PersistNew \/ RouteOutput \/ UndoOutput) => ChannelInv'
  <1> SUFFICES ASSUME ChannelInv, PlaceInv', PersistNew \/ RouteOutput \/ UndoOutput
               PROVE  ChannelInv'
    OBVIOUS
  <1>1. call.pc \in {"persist", "routeOutputs", "undoOutputs"}
    BY DEF PersistNew, RouteOutput, UndoOutput, At
  <1>2. /\ IsCall(call) /\ call.faults \in Nat /\ call.undo \in BOOLEAN /\ ~call.undo
        /\ AllLinked
    BY <1>1, PlaceParts DEF ChannelInv, ChannelOK, PlaceInv, PlaceOK, ScriptShape
  <1>3. AllLinked'
    BY <1>2, SameLinks DEF PersistNew, RouteOutput, UndoOutput, world, MoveCapture,
                             MoveCaptureFails
  <1>4. ASSUME NEW c, IsCall(c), c.pc \in {"undoMove", "undoRoute"}, c.faults \in Nat,
               c.undo \in BOOLEAN, ~c.undo, c.script = RestoreScript,
               call' = c \/ call' = Failing(c)
        PROVE  ChannelInv'
    <2>1. /\ call'.pc = c.pc /\ call'.faults \in Nat /\ call'.undo = c.undo
          /\ call'.script = RestoreScript
      BY <1>4, FailingShape, FailingFields, FaultsCounted
    <2> QED
      BY <1>3, <1>4, <2>1, FreshChannels
  <1>5. ASSUME NEW label
        PROVE  LET c == [Goto(label) EXCEPT !.script = RestoreScript]
               IN  /\ IsCall(c) /\ c.pc = label /\ c.faults = call.faults
                   /\ c.undo = call.undo /\ c.script = RestoreScript
    BY <1>2 DEF IsCall, Goto
  <1>6. CASE call' = Failing([Goto("undoMove") EXCEPT !.script = RestoreScript])
    BY <1>2, <1>4, <1>5, <1>6
  <1>7. CASE call' = [Goto("routeOutputs") EXCEPT !.script = <<>>]
    <2>1. call'.pc = "routeOutputs" /\ call'.faults = call.faults
      BY <1>2, <1>7 DEF IsCall, Goto
    <2> QED
      BY <1>2, <1>3, <2>1, QuietChannels
  <1>8. CASE \E m : call' = [call EXCEPT !.moved = m]
    <2>1. call'.pc = call.pc /\ call'.faults = call.faults
      BY <1>2, <1>8 DEF IsCall
    <2> QED
      BY <1>1, <1>2, <1>3, <2>1, QuietChannels
  <1>9. CASE call' = Failing(Goto("undoOutputs"))
    <2>1. IsCall(Goto("undoOutputs")) /\ Goto("undoOutputs").faults \in Nat
      BY <1>2, GotoShape, GotoFields
    <2>2. call'.pc = "undoOutputs" /\ call'.faults \in Nat
      BY <1>2, <1>9, <2>1, GotoShape, FailingShape, FaultsCounted
    <2> QED
      BY <1>3, <2>2, QuietChannels
  <1>10. CASE call' = Failing(AfterOutputFailure)
    <2>1. CASE call.new = NoRoute
      BY <1>3, <1>10, <2>1, NoCallFaults, QuietChannels DEF AfterOutputFailure, Failing
    <2>2. CASE call.new # NoRoute
      <3>1. call' = Failing([Goto("undoRoute") EXCEPT !.script = RestoreScript])
        BY <1>10, <2>2 DEF AfterOutputFailure
      <3> QED
        BY <1>2, <1>4, <1>5, <3>1
    <2> QED
      BY <2>1, <2>2
  <1>11. CASE call' = [AfterOutputFailure EXCEPT !.moved = {}]
    <2>1. CASE call.new = NoRoute
      <3>1. call' = NoCall
        BY <1>11, <2>1 DEF AfterOutputFailure, NoCall
      <3> QED
        BY <1>3, <3>1, NoCallFaults, QuietChannels
    <2>2. CASE call.new # NoRoute
      <3> DEFINE c == [Goto("undoRoute") EXCEPT !.script = RestoreScript]
      <3>1. /\ IsCall(c) /\ c.pc = "undoRoute" /\ c.faults = call.faults
            /\ c.undo = call.undo /\ c.script = RestoreScript
        BY <1>5
      <3>2. call' = [c EXCEPT !.moved = {}]
        BY <1>11, <2>2 DEF AfterOutputFailure
      <3> HIDE DEF c
      <3>3. /\ IsCall(call') /\ call'.pc = c.pc /\ call'.faults = c.faults
            /\ call'.undo = c.undo /\ call'.script = c.script
        BY <3>1, <3>2 DEF IsCall
      <3> QED
        BY <1>2, <1>3, <3>1, <3>3, FreshChannels
    <2> QED
      BY <2>1, <2>2
  <1> QED
    BY <1>6, <1>7, <1>8, <1>9, <1>10, <1>11 DEF PersistNew, RouteOutput, UndoOutput, Continue

\* The links of a new route.
LEMMA LinkNewChannels ==
    MaxFaults <= 1 /\ ChannelInv /\ PlaceInv' /\ LinkNew => ChannelInv'
  <1> SUFFICES ASSUME MaxFaults <= 1, ChannelInv, PlaceInv', LinkNew PROVE ChannelInv'
    OBVIOUS
  <1> DEFINE done == [Goto("persist") EXCEPT !.new.method = "PipeWireLinks"]
  <1>1. call.pc = "link" /\ RunLinks(call.new.sid, RouteUndo, done, NoCall)
    BY DEF LinkNew, At
  <1>2. /\ IsCall(call) /\ call.faults \in Nat /\ WorldShape /\ AllLinked
        /\ call.new \in Routes
    BY <1>1, PlaceParts DEF ChannelInv, ChannelOK, PlaceInv, RouteInv, Agrees, RoutesOrNone
  <1>3. PICK s \in StreamIds : s = call.new.sid
    BY <1>2 DEF Routes
  <1>4. done.pc = "persist" /\ done.faults \in Nat
    BY <1>2 DEF IsCall, Goto
  <1> HIDE DEF done
  <1>5. RunLinks(s, RouteUndo, done, NoCall)
    BY <1>1, <1>3
  <1>6. CASE AllLinked' /\ (call' = done \/ call' = NoCall)
    BY <1>4, <1>6, NoCallFaults, QuietChannels
  <1>7. CASE s \in Sound'
    <2>1. s \in Sound /\ s \notin late'
      BY <1>2, <1>5, <1>7, LinksOfOne DEF Sound, Live
    <2>2. Linking(call, ports[s])
      BY <1>1, <1>3, <2>1 DEF ChannelInv, ChannelOK
    <2>3. /\ Linked(ports'[s])
          /\ \/ call' = done \/ call' = NoCall
             \/ /\ call'.pc = call.pc /\ call'.new = call.new /\ call'.faults \in Nat
                /\ Linking(call', ports'[s])
      BY <1>5, <2>1, <2>2, LinkingKept
    <2>4. AllLinked'
      BY <1>2, <1>5, <2>3, OtherLinksKept
    <2>5. CASE /\ call'.pc = call.pc /\ call'.new = call.new /\ call'.faults \in Nat
               /\ Linking(call', ports'[s])
      <3>1. ChannelOK(call)'
        BY <1>1, <1>3, <2>5 DEF ChannelOK, Linking
      <3> QED
        BY <2>4, <3>1 DEF ChannelInv
    <2> QED
      BY <1>6, <2>3, <2>4, <2>5
  <1>8. CASE s \notin Sound'
    <2>1. /\ Sound' \subseteq Sound /\ AllLinked'
          /\ \/ call' = done \/ call' = NoCall \/ call' = Failing(NoCall)
             \/ /\ call'.pc = call.pc /\ call'.new = call.new /\ call'.old = call.old
                /\ call'.faults \in Nat
      BY <1>5, <1>8, ScriptsKeepChannels
    <2>2. CASE /\ call'.pc = call.pc /\ call'.new = call.new /\ call'.faults \in Nat
      <3>1. ChannelOK(call)'
        BY <1>1, <1>3, <1>8, <2>1, <2>2 DEF ChannelOK
      <3> QED
        BY <2>1, <3>1 DEF ChannelInv
    <2> QED
      BY <1>6, <2>1, <2>2 DEF Failing
  <1> QED
    BY <1>7, <1>8

\* The links of a route given up or undone.
LEMMA TakeBackChannels ==
    ASSUME ChannelInv, PlaceInv', NEW r \in {call.old, call.new}, r \in Routes,
           r.method = "PipeWireLinks",
           \/ call.pc = "restoreOld" /\ r = call.old
           \/ call.pc \in {"undoMove", "undoRoute"} /\ r = call.new,
           NEW done, NEW failed, RunLinks(r.sid, RestoreUndo, done, failed),
           IsCall(failed), done.faults \in Nat, failed.faults \in Nat,
           done.pc \notin {"link", "restoreOld", "undoMove", "undoRoute"},
           failed.pc \notin {"link", "restoreOld", "undoMove", "undoRoute"}
    PROVE  ChannelInv'
  <1>1. /\ IsCall(call) /\ call.faults \in Nat /\ WorldShape /\ AllLinked
    BY PlaceParts DEF ChannelInv, ChannelOK
  <1>2. PICK s \in StreamIds : s = r.sid
    BY DEF Routes
  <1>3. RunLinks(s, RestoreUndo, done, failed)
    BY <1>2
  <1>4. Failing(failed).pc = failed.pc /\ Failing(failed).faults \in Nat
    BY FailingShape, FaultsCounted
  <1>5. CASE AllLinked' /\ (call' = done \/ call' = failed \/ call' = Failing(failed))
    BY <1>4, <1>5, QuietChannels
  <1>6. CASE s \in Sound'
    <2>1. s \in Sound /\ s \notin late'
      BY <1>1, <1>3, <1>6, LinksOfOne DEF Sound, Live
    <2>2. Unlinking(call, ports[s]) /\ Restoring(call, s)
      BY <1>2, <2>1 DEF ChannelInv, ChannelOK, PlaceInv, PlaceOK, ScriptShape
    <2>3. /\ Linked(ports'[s])
          /\ \/ call' = done \/ call' = failed \/ call' = Failing(failed)
             \/ /\ call'.pc = call.pc /\ call'.new = call.new /\ call'.old = call.old
                /\ call'.faults \in Nat /\ Unlinking(call', ports'[s])
      BY <1>3, <2>1, <2>2, UnlinkingKept
    <2>4. AllLinked'
      BY <1>1, <1>3, <2>3, OtherLinksKept
    <2>5. CASE /\ call'.pc = call.pc /\ call'.new = call.new /\ call'.old = call.old
               /\ call'.faults \in Nat /\ Unlinking(call', ports'[s])
      <3>1. ChannelOK(call)'
        BY <1>2, <2>5 DEF ChannelOK, Unlinking
      <3> QED
        BY <2>4, <3>1 DEF ChannelInv
    <2> QED
      BY <1>5, <2>3, <2>4, <2>5
  <1>7. CASE s \notin Sound'
    <2>1. /\ Sound' \subseteq Sound /\ AllLinked'
          /\ \/ call' = done \/ call' = failed \/ call' = Failing(failed)
             \/ /\ call'.pc = call.pc /\ call'.new = call.new /\ call'.old = call.old
                /\ call'.faults \in Nat
      BY <1>3, <1>7, ScriptsKeepChannels
    <2>2. CASE /\ call'.pc = call.pc /\ call'.new = call.new /\ call'.old = call.old
               /\ call'.faults \in Nat
      <3>1. ChannelOK(call)'
        BY <1>2, <1>7, <2>1, <2>2 DEF ChannelOK
      <3> QED
        BY <2>1, <3>1 DEF ChannelInv
    <2> QED
      BY <1>5, <2>1, <2>2
  <1> QED
    BY <1>6, <1>7

\* restore_route, of the route given up and of the one just made.
LEMMA RestoreChannels == ChannelInv /\ PlaceInv' /\ (RestoreOld \/ Undo) => ChannelInv'
  <1> SUFFICES ASSUME ChannelInv, PlaceInv', RestoreOld \/ Undo PROVE ChannelInv'
    OBVIOUS
  <1>1. /\ IsCall(call) /\ call.faults \in Nat /\ WorldShape /\ AllLinked
        /\ NoCall.faults \in Nat /\ NoCall.pc = "idle" /\ IsCall(NoCall)
    BY PlaceParts, NoCallAgrees, NoCallFaults DEF ChannelInv, ChannelOK
  <1>2. ASSUME NEW label
        PROVE  /\ IsCall(Goto(label)) /\ Goto(label).pc = label
               /\ Goto(label).faults \in Nat
    BY <1>1, GotoShape, GotoFields
  <1>3. ASSUME NEW s \in Live, PutStream(s, "phys") PROVE AllLinked'
    BY <1>1, <1>3, MovedIsLinked DEF Live
  <1>4. UNCHANGED world => AllLinked'
    BY <1>1, SameLinks DEF world
  <1>5. CASE RestoreOld
    <2>1. call.pc = "restoreOld" /\ call.old \in Routes
      BY <1>5 DEF RestoreOld, At, ChannelInv, PlaceInv, PlaceOK, ReleaseShape, RoutesOrNone
    <2>2. CASE call.old.method = "PulseMove"
      <3>1. AllLinked' /\ (call' = Goto("dropOutputs") \/ call' = NoCall)
        BY <1>3, <1>4, <1>5, <2>2
           DEF RestoreOld, MoveDone, MoveRefused, MoveTimedOut, Continue, Return
      <3> QED
        BY <1>1, <1>2, <3>1, QuietChannels
    <2>3. CASE call.old.method = "PipeWireLinks"
      <3>1. RunLinks(call.old.sid, RestoreUndo, Goto("dropOutputs"), NoCall)
        BY <1>5, <2>3 DEF RestoreOld
      <3> QED
        BY <1>1, <1>2, <2>1, <2>3, <3>1, TakeBackChannels
    <2> QED
      BY <2>1, <2>2, <2>3 DEF Routes
  <1>6. CASE Undo
    <2> DEFINE next == IF At("undoRoute") THEN Goto("clearUndo") ELSE NoCall
    <2>1. call.pc \in {"undoMove", "undoRoute"} /\ call.new \in Routes
      BY <1>6 DEF Undo, ChannelInv, PlaceInv, PlaceOK, ReleaseShape, RoutesOrNone
    <2>2. IsCall(next) /\ next.pc \in {"clearUndo", "idle"} /\ next.faults \in Nat
      BY <1>1, <1>2
    <2>3. CASE call.new.method = "PulseMove"
      <3>1. AllLinked' /\ call' = next
        BY <1>3, <1>4, <1>6, <2>3 DEF Undo, MoveDone, MoveRefused, Continue
      <3> HIDE DEF next
      <3> QED
        BY <2>2, <3>1, QuietChannels
    <2>4. CASE call.new.method = "PipeWireLinks"
      <3>1. RunLinks(call.new.sid, RestoreUndo, next, next)
        BY <1>6, <2>4 DEF Undo
      <3> HIDE DEF next
      <3> QED
        BY <1>1, <2>1, <2>2, <2>4, <3>1, TakeBackChannels
    <2> QED
      BY <2>1, <2>3, <2>4 DEF Routes
  <1> QED
    BY <1>5, <1>6

\* The daemon's process and the world around it.
LEMMA OthersChannels ==
    /\ ChannelInv /\ PlaceInv'
    /\ BeginStop \/ Exit \/ Crash \/ Start \/ Environment \/ UNCHANGED vars
    => ChannelInv'
  <1> SUFFICES ASSUME ChannelInv, PlaceInv',
                      BeginStop \/ Exit \/ Crash \/ Start \/ Environment \/ UNCHANGED vars
               PROVE  ChannelInv'
    OBVIOUS
  <1>1. WorldShape /\ AllLinked /\ call.faults \in Nat
    BY PlaceParts DEF ChannelInv, ChannelOK
  <1>2. CASE UNCHANGED <<streams, ports, late>> /\ (call' = call \/ call' = NoCall)
    <2>1. AllLinked'
      BY <1>1, <1>2, SameLinks
    <2>2. CASE call' = NoCall
      BY <2>1, <2>2, NoCallFaults, QuietChannels
    <2>3. CASE call' = call
      <3>1. ChannelOK(call)'
        BY <1>2, <2>3 DEF ChannelInv, ChannelOK, Sound, Live, Linking, Unlinking
      <3> QED
        BY <2>1, <3>1 DEF ChannelInv
    <2> QED
      BY <1>2, <2>2, <2>3
  <1>3. CASE BeginStop \/ Exit \/ Crash \/ Start \/ UNCHANGED vars
    BY <1>2, <1>3 DEF BeginStop, Exit, Crash, Start, Dead, Return, world, vars
  <1>4. CASE \E o \in Outputs, source \in {"none", "phys", "mic"} : CaptureChanges(o, source)
    BY <1>2, <1>4 DEF CaptureChanges, MoveCapture
  <1>5. CASE \E f \in SUBSET {"sink", "source"} : DevicesChange(f)
    BY <1>2, <1>5 DEF DevicesChange, world
  <1>6. ASSUME NEW s \in StreamIds, UserMovesAway(s) PROVE ChannelInv'
    <2>1. AllLinked' /\ call' = call /\ call.pc = "idle"
      BY <1>1, <1>6, MovedIsLinked DEF UserMovesAway, At
    <2> QED
      BY <1>1, <2>1, QuietChannels
  <1>7. ASSUME NEW s \in StreamIds, NEW k, NEW sink, Appear(s, k, sink) PROVE ChannelInv'
    <2>1. /\ \A t \in StreamIds \ {s} : streams'[t] = streams[t] /\ ports'[t] = ports[t]
          /\ ports'[s] \in {{"rL", "rR"}, {"oL", "oR"}}
      BY <1>1, <1>7 DEF Appear, WorldShape
    <2>2. AllLinked'
      <3>1. late' = late
        BY <1>7 DEF Appear
      <3> QED
        BY <1>1, <2>1, <3>1 DEF AllLinked, Sound, Live, Linked
    <2>3. call' = call /\ call.pc = "idle"
      BY <1>7 DEF Appear, At
    <2> QED
      BY <1>1, <2>2, <2>3, QuietChannels
  <1>8. ASSUME NEW s \in StreamIds, Vanish(s) PROVE ChannelInv'
    <2>1. /\ call' = call /\ streams'[s] = NoStream
          /\ \A t \in StreamIds \ {s} : streams'[t] = streams[t] /\ ports'[t] = ports[t]
      BY <1>1, <1>8 DEF Vanish, WorldShape
    <2>2. \A t \in Sound' : t \in Sound /\ ports'[t] = ports[t]
      <3>1. late' = late \ {s}
        BY <1>8 DEF Vanish
      <3> QED
        BY <2>1, <3>1 DEF Sound, Live
    <2>3. AllLinked'
      BY <1>1, <2>2 DEF AllLinked
    <2>4. ChannelOK(call)'
      BY <2>1, <2>2 DEF ChannelInv, ChannelOK, Linking, Unlinking
    <2> QED
      BY <2>3, <2>4 DEF ChannelInv
  <1> QED
    BY <1>3, <1>4, <1>5, <1>6, <1>7, <1>8 DEF Environment

\* When at most one command of each call fails, no channel of a stream is left without a sink
\* by the calls that rewire it, whatever vanishes and whenever the daemon dies, unless the
\* command that failed is a pw-link of that stream that timed out after its effect.  With such
\* a command, or with two failures in one call, one may be: the rollback does not make the link
\* again that the failed command has removed, and it goes on after one it could not make again.
THEOREM ChannelsNeverLost == MaxFaults <= 1 => (RoutingSpec => []ChannelsStayLinked)
  <1> SUFFICES ASSUME MaxFaults <= 1 PROVE RoutingSpec => []ChannelsStayLinked
    OBVIOUS
  <1>1. RoutingInit => ChannelInv
    <2> SUFFICES ASSUME RoutingInit PROVE ChannelInv
      OBVIOUS
    <2>1. AllLinked
      BY DEF RoutingInit, AllLinked, Sound, Live
    <2>2. ChannelOK(call)
      BY NoCallFaults DEF RoutingInit, ChannelOK
    <2> QED
      BY <2>1, <2>2, PlaceInitially DEF ChannelInv
  <1>2. ChannelInv /\ [RoutingNext]_vars => ChannelInv'
    <2> SUFFICES ASSUME ChannelInv, [RoutingNext]_vars PROVE ChannelInv'
      OBVIOUS
    <2>1. PlaceInv'
      BY PlaceStepKeeps DEF ChannelInv
    <2>2. CASE Refresh \/ (\E s \in StreamIds : ManualRoute(s)) \/ RestoreOnStop
      BY <2>1, <2>2, BeginsChannels
    <2>3. CASE Commands
      BY <2>1, <2>3, OtherCommandsChannels, MovesChannels, UndoneChannels, LinkNewChannels,
         RestoreChannels DEF Commands
    <2>4. CASE BeginStop \/ Exit \/ Crash \/ Start \/ Environment \/ UNCHANGED vars
      BY <2>1, <2>4, OthersChannels
    <2> QED
      BY <2>2, <2>3, <2>4 DEF RoutingNext
  <1>3. ChannelInv => ChannelsStayLinked
    BY DEF ChannelInv, AllLinked, Sound, Linked, ChannelsStayLinked
  <1> QED
    BY <1>1, <1>2, <1>3, PTL DEF RoutingSpec
===============================================================================
