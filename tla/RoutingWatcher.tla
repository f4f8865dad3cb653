--------------------------- MODULE RoutingWatcher ---------------------------
(***************************************************************************)
(* The incoming-route watcher: PulseRoutingWatcher (routing.rs) as the     *)
(* daemon drives it (PulseManualRoutes and LifecycleProtected in main.rs). *)
(*                                                                         *)
(* The watcher moves ONE application's playback stream to the virtual sink *)
(* REMOTE_IN and the application's captures to the virtual microphone, and *)
(* keeps a journal of the route so that a daemon that died can put it      *)
(* back.  Every pactl, pw-link and journal command is a step of its own:   *)
(* the daemon may be killed between any two of them, a stream may vanish,  *)
(* and a command may fail, with (a timeout) or without having taken effect.*)
(*                                                                         *)
(* One physical sink and one physical source stand for all of them, so the *)
(* original sink of a route needs no name.                                 *)
(***************************************************************************)
EXTENDS Naturals, Sequences, FiniteSets

CONSTANTS
    StreamIds,    \* indices of PulseAudio sink inputs
    KindsOf,      \* StreamIds -> the kinds of stream an index may carry
    Outputs,      \* indices of source outputs (captures)
    OutputApp,    \* Outputs -> the application that captures
    MaxFaults     \* commands that may fail in one call, bounds the model

\* "call": a browser tab in a call; "media": a browser tab that only plays;
\* "zoom": Zoom's play stream; "other": a stream not on the allow list.
Kinds == {"call", "media", "zoom", "other"}
Apps == {"web", "zoom"}
Sinks == {"phys", "remote"}
\* A stereo stream's links: left and right to the original sink or to REMOTE_IN.
Ports == {"oL", "oR", "rL", "rR"}

ASSUME RoutingAssumption ==
    /\ 0 \notin StreamIds
    /\ KindsOf \in [StreamIds -> SUBSET Kinds]
    /\ OutputApp \in [Outputs -> Apps]
    /\ MaxFaults \in Nat

NoStream == [kind |-> "none", sink |-> "phys"]
NoRoute == [sid |-> 0, app |-> "none", method |-> "none"]
VARIABLES
    streams,     \* StreamIds -> kind and the sink PulseAudio reports
    ports,       \* StreamIds -> the links the stream really has
    placed,      \* history: streams the watcher moved to REMOTE_IN and that are still there
    late,        \* history: streams a pw-link command of which timed out after its effect
    captures,    \* Outputs -> "none", "phys" or "mic" (the virtual microphone)
    fallback,    \* which of "sink", "source" has an unambiguous physical device
    mode,        \* the daemon: "up", "stopping", "restoring" or "down"
    active,      \* PulseRoutingWatcher.active_route
    selected,    \* PulseRoutingWatcher.selected_app_key
    pending,     \* PulseRoutingWatcher.route_recovery_pending
    journal,     \* the journal file
    call         \* the call in progress, under the LifecycleProtected mutex

world == <<streams, ports, placed, late, captures>>
memory == <<active, selected, pending>>
vars == <<streams, ports, placed, late, captures, fallback, mode, active, selected, pending,
          journal, call>>

\* The locals of a call: the route being made and the one given up or kept, whether the
\* old index now carries another application, whether this is restore_active, the captures
\* as discovered and those handled so far, the link commands left and whether they are a
\* rollback, and the commands that have failed.
NoCall == [pc |-> "idle", new |-> NoRoute, old |-> NoRoute, reused |-> FALSE,
           ending |-> FALSE, seen |-> [o \in Outputs |-> "none"], moved |-> {},
           script |-> <<>>, undo |-> FALSE, faults |-> 0]

----------------------------------------------------------------------------
(* What discover() sees.                                                   *)

Live == {s \in StreamIds : streams[s] # NoStream}

\* stable_app_key: both kinds of browser stream belong to the same application.
AppOf(s) == CASE streams[s].kind \in {"call", "media"} -> "web"
              [] streams[s].kind = "zoom" -> "zoom"
              [] OTHER -> "none"

classify_application(s) == AppOf(s) # "none"
is_call_like(s) == streams[s].kind \in {"call", "zoom"}
same_route_identity(r, s) == s \in Live /\ r.sid = s /\ r.app = AppOf(s)

\* Streams on REMOTE_IN that are not the active route.
Conflicting == {s \in Live : streams[s].sink = "remote" /\ ~same_route_identity(active, s)}

Candidates == {s \in Live \ Conflicting : classify_application(s)}

is_browser_duplex_candidate(s) ==
    /\ AppOf(s) = "web"
    /\ \E o \in Outputs : OutputApp[o] = "web" /\ captures[o] # "none"

is_auto_route_candidate(s) == is_call_like(s) \/ is_browser_duplex_candidate(s)

\* The only element of S, or no stream.
Only(S) == IF Cardinality(S) = 1 THEN CHOOSE s \in S : TRUE ELSE 0

single_auto_route_candidate ==
    LET calls == {s \in Candidates : is_call_like(s)}
    IN  IF calls # {} THEN Only(calls)
        ELSE Only({s \in Candidates : is_browser_duplex_candidate(s)})

\* The one automatic candidate of an application.
Replacement(app) == Only({s \in Candidates : AppOf(s) = app /\ is_auto_route_candidate(s)})

single_call_like_replacement ==
    Only({s \in Candidates : is_call_like(s) /\ ~same_route_identity(active, s)})

should_yield_browser_fallback(s) == ~is_call_like(s) /\ is_browser_duplex_candidate(s)

----------------------------------------------------------------------------
(* Outcomes of one command of the call.                                    *)

Continue(c) == call' = c
Return == call' = NoCall
\* One more command of this call has failed.
MayFail == call.faults < MaxFaults
Failing(c) == IF c = NoCall THEN NoCall ELSE [c EXCEPT !.faults = @ + 1]
At(label) == call.pc = label
Goto(label) == [call EXCEPT !.pc = label]

\* pactl move-sink-input.
PutStream(s, sink) ==
    /\ streams' = [streams EXCEPT ![s].sink = sink]
    /\ ports' = [ports EXCEPT ![s] = IF sink = "remote" THEN {"rL", "rR"} ELSE {"oL", "oR"}]
    /\ placed' = IF sink = "remote" THEN placed \cup {s} ELSE placed \ {s}
    /\ late' = late \ {s}
    /\ UNCHANGED captures

\* move_stream: done; or refused, which Zoom's stream always may be; or timed out after
\* PulseAudio had done it.
MoveDone(s, sink) == s \in Live /\ PutStream(s, sink)
MoveRefused(s) == (s \in Live /\ AppOf(s) # "zoom" => MayFail) /\ UNCHANGED world
MoveTimedOut(s, sink) == s \in Live /\ MayFail /\ PutStream(s, sink)

\* move_source_output; one that fails may have moved the capture before it timed out.
MoveCapture(o, source) ==
    /\ captures' = [captures EXCEPT ![o] = source]
    /\ UNCHANGED <<streams, ports, placed, late>>
MoveCaptureFails(o, source) == MayFail /\ (UNCHANGED world \/ MoveCapture(o, source))

----------------------------------------------------------------------------
(* pw-link: the commands that take a Zoom stream's links to REMOTE_IN and    *)
(* back, and for each command the rollback when it fails.  pw-link refuses   *)
(* to make a link that exists and to remove one that does not.               *)

Link(p) == [add |-> TRUE, port |-> p]
Unlink(p) == [add |-> FALSE, port |-> p]

RouteScript == <<Link("rL"), Link("rR"), Unlink("oL"), Unlink("oR")>>
\* Mutant: the rollback of the last command forgets the left channel's own link.
RouteUndoOneSided == << <<>>, <<Unlink("rL")>>, <<Unlink("rL"), Unlink("rR")>>,
                        <<Unlink("rL"), Unlink("rR")>> >>

RouteUndo == << <<>>, <<Unlink("rL")>>, <<Unlink("rL"), Unlink("rR")>>,
                <<Link("oL"), Unlink("rL"), Unlink("rR")>> >>

RestoreScript == <<Link("oL"), Link("oR"), Unlink("rL"), Unlink("rR")>>
RestoreUndo == << <<>>, <<Unlink("oL")>>, <<>>, <<>> >>

LinkPossible(s) ==
    s \in Live /\ (Head(call.script).add <=> Head(call.script).port \notin ports[s])

Relink(s) ==
    LET c == Head(call.script)
    IN  /\ LinkPossible(s)
        /\ ports' = [ports EXCEPT ![s] = IF c.add THEN @ \cup {c.port} ELSE @ \ {c.port}]
        /\ UNCHANGED <<streams, placed, captures>>

LinkDone(s) == Relink(s) /\ UNCHANGED late
LinkRefused(s) == (LinkPossible(s) => MayFail) /\ UNCHANGED world
LinkTimedOut(s) == MayFail /\ Relink(s) /\ late' = late \cup {s}

\* The call after the head of its script, or next when that was the last command.
AfterLink(next) ==
    IF Len(call.script) = 1 THEN next ELSE [call EXCEPT !.script = Tail(@)]

\* The script of the call on stream s: it ends in done, or its rollback ends in failed.  The
\* results of the rollback are ignored, so that a command of it that times out after its
\* effect is one that was done.
RunLinks(s, rollback, done, failed) ==
    \/ /\ ~call.undo /\ LinkDone(s)
       /\ Continue(AfterLink(done))
    \/ /\ ~call.undo /\ (LinkRefused(s) \/ LinkTimedOut(s))
       /\ LET back == rollback[5 - Len(call.script)]
          IN  Continue(Failing(IF back = <<>> THEN failed
                               ELSE [call EXCEPT !.script = back, !.undo = TRUE]))
    \/ /\ call.undo /\ (LinkDone(s) \/ LinkRefused(s))
       /\ Continue(AfterLink(failed))

----------------------------------------------------------------------------
(* route_candidate_stream: where it begins for a stream, given the state of *)
(* the active route, and the plan the caller continues with.                *)

NewRoute(s) ==
    IF s = 0 THEN NoRoute ELSE [sid |-> s, app |-> AppOf(s), method |-> "PulseMove"]

CallFor(label, s, old) ==
    [NoCall EXCEPT !.pc = label, !.new = NewRoute(s), !.old = old, !.seen = captures,
        !.script = IF old.method = "PipeWireLinks" THEN RestoreScript ELSE <<>>]

\* Mutant: the old route is not restored before the new one is made.
RouteWithoutRestoring(s) == CallFor("move", s, NoRoute)

RouteCandidate(s) ==
    CASE active = NoRoute -> CallFor("move", s, NoRoute)
      [] same_route_identity(active, s) -> CallFor("persistSame", 0, active)
      [] active # NoRoute /\ ~same_route_identity(active, s) /\ active.sid = s ->
            CallFor("dropOutputs", s, active)
      [] OTHER -> CallFor("restoreOld", s, active)

\* restore_active: a stream that is gone, or no longer on REMOTE_IN, is not moved.
RestoreCall ==
    IF active = NoRoute THEN [CallFor("dropOutputs", 0, NoRoute) EXCEPT !.ending = TRUE]
    ELSE LET found == \E s \in Candidates : same_route_identity(active, s)
             there == active.method = "PipeWireLinks" \/ streams[active.sid].sink = "remote"
         IN  [CallFor(IF found /\ there THEN "restoreOld" ELSE "dropOutputs", 0, active)
                 EXCEPT !.ending = TRUE]

\* reconcile(None) with an active route whose stream is a candidate.
KeepActive(s) ==
    LET better == single_call_like_replacement
    IN  IF should_yield_browser_fallback(s) /\ better # 0
        THEN RouteCandidate(better)
        ELSE CallFor(CASE active.method = "PipeWireLinks" -> "persistSame"
                       [] active.method = "PulseMove" /\ streams[s].sink # "remote" -> "moveAgain"
                       [] OTHER -> "routeOutputs", 0, active)

\* reconcile(None) with an active route whose stream is gone: the stream to route once
\* the old route's captures and journal are dropped.
Successor ==
    IF Replacement(active.app) # 0 THEN Replacement(active.app)
    ELSE IF active.sid \in Candidates THEN 0 ELSE single_auto_route_candidate

\* restore_stale_remote_conflict applies to one stray stream that is not in a call.
StaleRemote ==
    IF /\ active = NoRoute /\ "sink" \in fallback
       /\ Cardinality(Conflicting) = 1
       /\ \A s \in Conflicting : classify_application(s) /\ ~is_call_like(s)
    THEN Only(Conflicting) ELSE 0

----------------------------------------------------------------------------
(* The daemon's calls.  Each begins with a discovery, which may fail: the   *)
(* call then returns and changes nothing, which is a step the model leaves  *)
(* out.                                                                     *)

CanCall == mode = "up" /\ At("idle")

\* PulseResources::refresh: reconcile(None), once a second, unless a self test has the audio
\* operation gate.
Refresh ==
    /\ CanCall
    /\ \/ /\ pending
          /\ Continue(RestoreCall)
          /\ UNCHANGED memory
       \/ /\ ~pending /\ Conflicting # {} /\ StaleRemote # 0
          /\ Continue(CallFor("moveStale", StaleRemote, NoRoute))
          /\ UNCHANGED memory
       \/ /\ ~pending /\ Conflicting = {} /\ active # NoRoute
          /\ \E s \in Candidates :
                same_route_identity(active, s) /\ Continue(KeepActive(s))
          /\ UNCHANGED memory
       \/ /\ ~pending /\ Conflicting = {} /\ active # NoRoute
          /\ ~\E s \in Candidates : same_route_identity(active, s)
          /\ Continue([CallFor("dropOutputs", Successor, active)
                          EXCEPT !.reused = active.sid \in Candidates])
          /\ active' = NoRoute
          /\ UNCHANGED <<selected, pending>>
       \/ /\ ~pending /\ Conflicting = {} /\ active = NoRoute
          /\ LET s == IF selected # "none" THEN Replacement(selected)
                      ELSE single_auto_route_candidate
             IN  s # 0 /\ Continue(RouteCandidate(s))
          /\ UNCHANGED memory
    /\ UNCHANGED <<world, fallback, mode, journal>>

\* PulseManualRoutes::reconcile: the user chooses a stream.
ManualRoute(s) ==
    /\ CanCall
    /\ Conflicting = {} /\ s \in Candidates
    /\ Continue(RouteCandidate(s))
    /\ UNCHANGED <<world, fallback, mode, memory, journal>>

\* PulseManualRoutes::restore: stop_with first refuses every later call, then waits for the
\* one in progress, then restores the active route.
BeginStop ==
    /\ mode = "up"
    /\ mode' = "stopping"
    /\ UNCHANGED <<world, fallback, memory, journal, call>>

RestoreOnStop ==
    /\ mode = "stopping" /\ At("idle")
    /\ mode' = "restoring"
    /\ Continue(RestoreCall)
    /\ UNCHANGED <<world, fallback, memory, journal>>

----------------------------------------------------------------------------
(* The commands of a call.                                                 *)

\* Mutant: the result of restore_route is ignored.
RestoreOldUnchecked ==
    /\ At("restoreOld")
    /\ MoveDone(call.old.sid, "phys") \/ MoveRefused(call.old.sid)
    /\ Continue(Goto("dropOutputs"))
    /\ UNCHANGED <<fallback, mode, memory, journal>>

\* restore_route of the route given up; a failure ends the call with the route still active.
RestoreOld ==
    /\ At("restoreOld")
    /\ IF call.old.method = "PulseMove"
       THEN \/ MoveDone(call.old.sid, "phys") /\ Continue(Goto("dropOutputs"))
            \/ MoveRefused(call.old.sid) /\ Return
            \/ MoveTimedOut(call.old.sid, "phys") /\ Return
       ELSE RunLinks(call.old.sid, RestoreUndo, Goto("dropOutputs"), NoCall)
    /\ UNCHANGED <<fallback, mode, memory, journal>>

\* restore_matching_source_outputs, then the route is forgotten: by restore_active with the
\* selection and the pending recovery, by the others alone.
ToDrop == {o \in Outputs : /\ call.old # NoRoute /\ OutputApp[o] = call.old.app
                           /\ call.seen[o] = "mic" /\ o \notin call.moved}

DropOutput ==
    /\ At("dropOutputs") /\ ToDrop # {}
    /\ LET o == CHOOSE x \in ToDrop : TRUE
       IN  \/ /\ "source" \in fallback /\ MoveCapture(o, "phys")
              /\ Continue([call EXCEPT !.moved = @ \cup {o}])
           \/ "source" \in fallback /\ MoveCaptureFails(o, "phys") /\ Return
           \/ "source" \notin fallback /\ UNCHANGED world /\ Return
    /\ UNCHANGED <<fallback, mode, memory, journal>>

\* Mutant: restore_active leaves route_recovery_pending set.
OutputsDroppedStillPending ==
    /\ At("dropOutputs") /\ ToDrop = {}
    /\ active' = NoRoute
    /\ Continue(Goto(IF call.ending THEN "clearEnd" ELSE "clearOld"))
    /\ UNCHANGED <<world, fallback, mode, selected, pending, journal>>

OutputsDropped ==
    /\ At("dropOutputs") /\ ToDrop = {}
    /\ active' = NoRoute
    /\ IF call.ending
       THEN selected' = "none" /\ pending' = FALSE /\ Continue(Goto("clearEnd"))
       ELSE Continue([Goto("clearOld") EXCEPT !.moved = {}]) /\ UNCHANGED <<selected, pending>>
    /\ UNCHANGED <<world, fallback, mode, journal>>

\* clear_route_journal, and what each caller does after it; a failure returns an error.
JournalRemoved == journal' = NoRoute
JournalKept == MayFail /\ UNCHANGED journal

ClearOld ==
    /\ At("clearOld")
    /\ \/ /\ JournalRemoved
          /\ pending' = FALSE
          /\ IF call.new # NoRoute
             THEN Continue([Goto("move") EXCEPT !.script = <<>>]) /\ UNCHANGED selected
             ELSE selected' = (IF call.reused THEN selected ELSE "none") /\ Return
       \/ JournalKept /\ Return /\ UNCHANGED <<selected, pending>>
    /\ UNCHANGED <<world, fallback, mode, active>>

ClearLast ==
    /\ call.pc \in {"clearEnd", "clearUndo", "clearStale"}
    /\ JournalRemoved \/ JournalKept
    /\ Return
    /\ UNCHANGED <<world, fallback, mode, memory>>

\* move_stream to REMOTE_IN; Zoom falls back to links when PulseAudio refuses.
MoveNew ==
    /\ At("move")
    /\ \/ /\ MoveDone(call.new.sid, "remote")
          /\ selected' = call.new.app
          /\ Continue(Goto("persist"))
       \/ /\ MoveRefused(call.new.sid) \/ MoveTimedOut(call.new.sid, "remote")
          /\ selected' = "none"
          /\ IF call.new.app = "zoom"
             THEN Continue([Goto("link") EXCEPT !.script = RouteScript])
             ELSE Return
    /\ UNCHANGED <<fallback, mode, active, pending, journal>>

\* route_zoom_with_pipewire_links.
LinkNew ==
    /\ At("link")
    /\ RunLinks(call.new.sid, RouteUndo,
                [Goto("persist") EXCEPT !.new.method = "PipeWireLinks"], NoCall)
    /\ selected' = IF call'.pc = "persist" THEN call.new.app ELSE selected
    /\ UNCHANGED <<fallback, mode, active, pending, journal>>

\* The active route's stream has left REMOTE_IN and is moved again.
MoveAgain ==
    /\ At("moveAgain")
    /\ \/ MoveDone(call.old.sid, "remote") /\ Continue(Goto("persistSame"))
       \/ MoveRefused(call.old.sid) /\ Return
       \/ MoveTimedOut(call.old.sid, "remote") /\ Return
    /\ UNCHANGED <<fallback, mode, memory, journal>>

\* Mutant: an error of the journal is logged and the route kept.
PersistNewUnchecked ==
    /\ At("persist")
    /\ journal' = call.new \/ (MayFail /\ UNCHANGED journal)
    /\ Continue([Goto("routeOutputs") EXCEPT !.script = <<>>])
    /\ UNCHANGED <<world, fallback, mode, memory>>

\* persist_active_route: the journal is replaced by a rename, and an error may still be
\* reported after it.
PersistNew ==
    /\ At("persist")
    /\ \/ /\ journal' = call.new
          /\ Continue([Goto("routeOutputs") EXCEPT !.script = <<>>])
          /\ UNCHANGED selected
       \/ /\ MayFail
          /\ journal' \in {journal, call.new}
          /\ selected' = "none"
          /\ Continue(Failing([Goto("undoMove") EXCEPT !.script = RestoreScript]))
    /\ UNCHANGED <<world, fallback, mode, active, pending>>

PersistSame ==
    /\ At("persistSame")
    /\ \/ journal' = call.old /\ Continue(Goto("routeOutputs"))
       \/ MayFail /\ journal' \in {journal, call.old} /\ Return
    /\ UNCHANGED <<world, fallback, mode, memory>>

\* route_matching_source_outputs with its rollback.  A fresh route that cannot have its
\* captures is undone.
Routed == IF call.new = NoRoute THEN call.old ELSE call.new
ToRoute == {o \in Outputs : /\ OutputApp[o] = Routed.app
                            /\ call.seen[o] = "phys" /\ o \notin call.moved}

AfterOutputFailure ==
    IF call.new = NoRoute THEN NoCall
    ELSE [Goto("undoRoute") EXCEPT !.script = RestoreScript]

RouteOutput ==
    /\ At("routeOutputs") /\ ToRoute # {}
    /\ LET o == CHOOSE x \in ToRoute : TRUE
       IN  \/ /\ MoveCapture(o, "mic")
              /\ Continue([call EXCEPT !.moved = @ \cup {o}])
              /\ UNCHANGED selected
           \/ /\ MoveCaptureFails(o, "mic")
              /\ Continue(Failing(IF call.moved = {} THEN AfterOutputFailure
                                  ELSE Goto("undoOutputs")))
              /\ selected' = IF call.new = NoRoute THEN selected ELSE "none"
    /\ UNCHANGED <<fallback, mode, active, pending, journal>>

UndoOutput ==
    /\ At("undoOutputs")
    /\ LET o == CHOOSE x \in call.moved : TRUE
       IN  /\ MoveCapture(o, "phys") \/ (MayFail /\ UNCHANGED world)
           /\ Continue(IF call.moved = {o} THEN [AfterOutputFailure EXCEPT !.moved = {}]
                       ELSE [call EXCEPT !.moved = @ \ {o}])
    /\ UNCHANGED <<fallback, mode, memory, journal>>

OutputsRouted ==
    /\ At("routeOutputs") /\ ToRoute = {}
    /\ active' = Routed
    /\ pending' = FALSE
    /\ Return
    /\ UNCHANGED <<world, fallback, mode, selected, journal>>

\* restore_route of the route just made, its result ignored.
Undo ==
    LET next == IF At("undoRoute") THEN Goto("clearUndo") ELSE NoCall
    IN  /\ call.pc \in {"undoMove", "undoRoute"}
        /\ IF call.new.method = "PulseMove"
           THEN /\ \/ MoveDone(call.new.sid, "phys")
                   \/ MoveRefused(call.new.sid)
                /\ Continue(next)
           ELSE RunLinks(call.new.sid, RestoreUndo, next, next)
        /\ UNCHANGED <<fallback, mode, memory, journal>>

\* restore_stale_remote_conflict: the stray stream goes to the only physical sink.
MoveStale ==
    /\ At("moveStale")
    /\ \/ /\ MoveDone(call.new.sid, "phys")
          /\ selected' = "none"
          /\ Continue(Goto("clearStale"))
       \/ /\ MoveRefused(call.new.sid) \/ MoveTimedOut(call.new.sid, "phys")
          /\ Return /\ UNCHANGED selected
    /\ UNCHANGED <<fallback, mode, active, pending, journal>>

----------------------------------------------------------------------------
(* The daemon's process.                                                   *)

Dead == active' = NoRoute /\ selected' = "none" /\ pending' = FALSE /\ Return

Exit ==
    /\ mode = "restoring" /\ At("idle")
    /\ mode' = "down" /\ Dead
    /\ UNCHANGED <<world, fallback, journal>>

Crash ==
    /\ mode # "down"
    /\ mode' = "down" /\ Dead
    /\ UNCHANGED <<world, fallback, journal>>

\* new_with_route_journal.
Start ==
    /\ mode = "down"
    /\ mode' = "up"
    /\ active' = journal
    /\ selected' = journal.app
    /\ pending' = (journal # NoRoute)
    /\ UNCHANGED <<world, fallback, journal, call>>

----------------------------------------------------------------------------
(* PulseAudio, the applications and the user.  An index seen by a discovery  *)
(* is not given to another stream before the call ends.                      *)

Appear(s, k, sink) ==
    /\ At("idle") /\ s \notin Live
    /\ streams' = [streams EXCEPT ![s] = [kind |-> k, sink |-> sink]]
    /\ ports' = [ports EXCEPT ![s] = IF sink = "remote" THEN {"rL", "rR"} ELSE {"oL", "oR"}]
    /\ UNCHANGED <<placed, late, captures, fallback, mode, memory, journal, call>>

Vanish(s) ==
    /\ s \in Live
    /\ streams' = [streams EXCEPT ![s] = NoStream]
    /\ ports' = [ports EXCEPT ![s] = {}]
    /\ placed' = placed \ {s}
    /\ late' = late \ {s}
    /\ UNCHANGED <<captures, fallback, mode, memory, journal, call>>

UserMovesAway(s) ==
    /\ At("idle") /\ s \in Live /\ streams[s].sink = "remote"
    /\ PutStream(s, "phys")
    /\ UNCHANGED <<fallback, mode, memory, journal, call>>

CaptureChanges(o, source) ==
    /\ At("idle") /\ captures[o] # source
    /\ MoveCapture(o, source)
    /\ UNCHANGED <<fallback, mode, memory, journal, call>>

DevicesChange(f) ==
    /\ At("idle") /\ f # fallback
    /\ fallback' = f
    /\ UNCHANGED <<world, mode, memory, journal, call>>

Environment ==
    \/ \E s \in StreamIds, sink \in Sinks : \E k \in KindsOf[s] : Appear(s, k, sink)
    \/ \E s \in StreamIds : Vanish(s) \/ UserMovesAway(s)
    \/ \E o \in Outputs, source \in {"none", "phys", "mic"} : CaptureChanges(o, source)
    \/ \E f \in SUBSET {"sink", "source"} : DevicesChange(f)

Commands ==
    \/ RestoreOld \/ DropOutput \/ OutputsDropped \/ ClearOld \/ ClearLast
    \/ MoveNew \/ LinkNew \/ MoveAgain \/ PersistNew \/ PersistSame
    \/ RouteOutput \/ UndoOutput \/ OutputsRouted \/ Undo \/ MoveStale

RoutingInit ==
    /\ streams = [s \in StreamIds |-> NoStream]
    /\ ports = [s \in StreamIds |-> {}]
    /\ placed = {} /\ late = {}
    /\ captures = [o \in Outputs |-> "none"]
    /\ fallback = {"sink", "source"}
    /\ mode = "up"
    /\ active = NoRoute /\ selected = "none" /\ pending = FALSE
    /\ journal = NoRoute
    /\ call = NoCall

RoutingNext ==
    \/ Refresh
    \/ \E s \in StreamIds : ManualRoute(s)
    \/ Commands
    \/ BeginStop \/ RestoreOnStop \/ Exit \/ Crash \/ Start
    \/ Environment

RoutingSpec == RoutingInit /\ [][RoutingNext]_vars

\* The watcher loop refreshes every second while no self test has the gate, and a call goes on
\* to its end.
RoutingFairness == SF_vars(Refresh) /\ WF_vars(Commands)

RoutingFairSpec == RoutingSpec /\ RoutingFairness

----------------------------------------------------------------------------
(* Properties.                                                             *)

\* While a route is active the journal names it, so that a daemon killed at any point finds
\* what it has to undo.
ActiveIsJournaled == active # NoRoute => journal = active

\* A second conversation is never put on REMOTE_IN, by a move or by links, while another one
\* that the watcher put there is known to it: because PulseAudio reports the stream there, or
\* because it is the active route.  The links of a Zoom stream that a daemon killed before its
\* journal, or a rollback that failed, has left behind are known to nobody.
OnRemote ==
    {s \in Live : /\ ports[s] \cap {"rL", "rR"} # {}
                  /\ s \in placed \/ streams[s].sink = "phys"}
Known(s) == s \in placed \/ s = active.sid
OneRouteAtATime ==
    [][\A s \in OnRemote' \ OnRemote : \A t \in OnRemote \ {s} : ~Known(t)]_vars

\* A daemon that lives lets go of its active route only when the stream is gone or back: no
\* longer where the watcher put it on REMOTE_IN and, routed by links, without a link to it.
StillRouted(r) ==
    \E s \in StreamIds :
        /\ same_route_identity(r, s)
        /\ IF r.method = "PulseMove" THEN s \in placed
           ELSE ports[s] \cap {"rL", "rR"} # {}
ReleasedWhenRestored ==
    [][active # NoRoute /\ active' # active /\ mode' # "down" => ~StillRouted(active)]_vars

\* Between calls both channels of every stream are linked to some sink, as long as no call
\* has two failing commands and no pw-link command of the stream timed out after its effect:
\* the rollback goes on after a link that it could not make again, and it does not make the
\* link again that the failed command has removed.
ChannelsStayLinked ==
    At("idle") => \A s \in Live \ late :
                    ports[s] \cap {"oL", "rL"} # {} /\ ports[s] \cap {"oR", "rR"} # {}

\* Recovery ends: in a daemon that stays up, with a microphone to restore captures to, no
\* half-undone links (pw-link refuses to repeat them) and commands that no longer fail, a
\* route found in the journal is put back and the watcher gets to work again.
RecoveryEnds ==
    /\ <>[](mode = "up" /\ "source" \in fallback /\ active.method # "PipeWireLinks")
    /\ <>[][call.ending /\ call.pc # "clearEnd" => call'.pc # "idle"]_vars
    => []<>~pending
====
