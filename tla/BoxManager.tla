----------------------------- MODULE BoxManager -----------------------------
(***************************************************************************)
(* boxmgr/manager.go with the callers of app/app.go: the lifecycle of the  *)
(* sing-box instance.  The main thread starts the manager, wires the       *)
(* management server and finally closes; management requests reload the    *)
(* current configuration, refresh the subscription nodes as a transaction, *)
(* and edit settings or nodes.  A request is called when the server        *)
(* accepts it and has its turn once it gets the mutex.                     *)
(*                                                                         *)
(* lifecycleMu is `lock`; a lifecycle operation is a sequence of steps     *)
(* under it.  What is done under mu alone is one step.  Configuration      *)
(* objects are shared by pointer (manager, settings API, rollback), so     *)
(* they live in a heap; a box remembers the contents it was built from.    *)
(* Contents are what the properties tell apart: the last edit they hold,   *)
(* the subscription nodes, and whether a node was moved to another port.   *)
(***************************************************************************)
EXTENDS Naturals, FiniteSets

CONSTANTS Request,         \* management requests in flight
          Main,            \* the thread of app.Run
          Obj, NoObj,      \* configuration objects
          Sub,             \* subscription node sets, 0 is the startup one
          BadSubs,         \* node sets no box can be started with
          ForeignSubs,     \* node sets one of whose ports another process owns
          BadEdits,        \* edits no box can be started with
          RoutedEdits,     \* edits that leave GeoIP routing enabled, 0 is the startup file
          Attempts,        \* maxRetries of reloadLocked and Start
          RollbackAttempts,
          EarlyRequests,   \* may requests arrive before the server is wired?
          MaxEdits,        \* bound: settings and node edits
          MaxConflicts,    \* bound: bind conflicts that pass with time
          MaxReloads       \* bound: lifecycle operations

ASSUME BoxConstants ==
  /\ Main \notin Request /\ NoObj \notin Obj \cup Request \cup {Main} /\ 0 \in Sub
  /\ BadSubs \subseteq Sub /\ ForeignSubs \subseteq Sub
  /\ BadEdits \subseteq Nat /\ RoutedEdits \subseteq Nat
  /\ Attempts \in Nat \ {0} /\ RollbackAttempts \in Nat \ {0}
  /\ EarlyRequests \in BOOLEAN
  /\ MaxEdits \in Nat /\ MaxConflicts \in Nat /\ MaxReloads \in Nat

\* Allocation never fails: a thread needs an object besides the ones in use.
ASSUME EnoughObjects == \A a, b, c, d \in Obj : Obj \ {a, b, c, d} # {}

VARIABLES
  lock,        \* who holds lifecycleMu, or NoObj
  closed, done,  \* Manager.closed; baseCtx is cancelled
  heap,        \* heap[o]: contents of a configuration object
  cfg,         \* Manager.cfg
  server,      \* does the management server accept requests?
  called,      \* requests accepted that have not yet had lifecycleMu
  src,         \* Server.cfgSrc, NoObj before there is a server
  box,         \* contents m.currentBox was built from, or NoBox
  router,      \* contents the GeoIP router's pools belong to, or NoBox
  refused,     \* history: the last start of the router could not listen
  live,        \* instances started and not closed
  cache,       \* the node set in the subscription cache file
  lastEdit,    \* the last edit that was saved and acknowledged
  conflicts, reloads,   \* what is left of the bounds' budgets
  pc, loc      \* per thread: where it is, and its locals

vars == <<lock, closed, done, server, called, heap, cfg, src, box, router, refused, live,
          cache, lastEdit, conflicts, reloads, pc, loc>>
runtime == <<heap, cfg, src, box, router, refused, live>>
ends == <<closed, done>>
accepted == <<server, called>>
bounds == <<conflicts, reloads>>

Thread == Request \cup {Main}
Contents(e, s, m) == [edit |-> e, sub |-> s, moved |-> m]
NoBox == Contents(0, 0, "none")
Free == lock = NoObj

NoLocals == [op |-> "none", old |-> NoObj, new |-> NoObj, was |-> NoBox,
             keep |-> NoBox, undo |-> FALSE, try |-> 0]

\* Objects are allocated where nothing points any more.
Used == {cfg, src} \cup UNION {{loc[t].old, loc[t].new} : t \in Thread}
Fresh == CHOOSE o \in Obj : o \notin Used

Startup == Contents(0, 0, "no")

Init ==
  /\ lock = NoObj /\ closed = FALSE /\ done = FALSE
  /\ \E o \in Obj : /\ o = CHOOSE x \in Obj : TRUE
                    /\ heap = [x \in Obj |-> Startup] /\ cfg = o
                    /\ loc = [t \in Thread |-> IF t = Main THEN [NoLocals EXCEPT !.old = o]
                                                           ELSE NoLocals]
  /\ server = FALSE /\ called = {} /\ src = NoObj
  /\ box = NoBox /\ router = NoBox /\ refused = FALSE /\ live = 0
  /\ cache = 0 /\ lastEdit = 0 /\ conflicts = MaxConflicts /\ reloads = MaxReloads
  /\ pc = [t \in Thread |-> IF t = Main THEN "start" ELSE "idle"]

Goto(t, l) == pc' = [pc EXCEPT ![t] = l]
Local(t, r) == loc' = [loc EXCEPT ![t] = r]
Unlock(t) == lock' = NoObj /\ Goto(t, "idle") /\ Local(t, NoLocals)

-----------------------------------------------------------------------------
(* Creating and starting an instance (external: sing-box). *)

\* createBox fails, or Start fails for a reason other than a bind conflict, or binds
\* a listener port another process keeps.
Hopeless(c) == c.sub \in BadSubs \/ c.edit \in BadEdits
\* A node's own port is taken by another process; reassigning the node helps.
PortTaken(c) == c.sub \in ForeignSubs /\ c.moved = "no"
Starts(c) == ~Hopeless(c) /\ ~PortTaken(c)
\* The ports of the instance just closed may still be draining.
Conflicts(c) == PortTaken(c) \/ Hopeless(c) \/ conflicts > 0
Spend(c) == conflicts' = IF Starts(c) THEN conflicts - 1 ELSE conflicts

\* reassignConflictingPort, for a conflict on a node's port.
Reassigned(c) == [c EXCEPT !.moved = "yes"]

-----------------------------------------------------------------------------
(* The GeoIP router. *)

Routed(c) == c.edit \in RoutedEdits

\* startGeoIPRouter, called where routing is enabled.  A router that cannot listen is
\* only reported: the service goes on without one.
StartGeoIPRouter(c) ==
  \/ Routed(c) /\ router' = c /\ refused' = FALSE
  \/ Routed(c) /\ router' = NoBox /\ refused' = TRUE
  \/ ~Routed(c) /\ UNCHANGED <<router, refused>>

-----------------------------------------------------------------------------
(* Start, Close and app.Run. *)

\* closeComponents.
CloseComponents ==
  /\ server' = FALSE
  /\ live' = live - (IF box = NoBox THEN 0 ELSE 1)
  /\ box' = NoBox /\ router' = NoBox /\ done' = TRUE

\* Start up to the instance loop; the server is up and bound to m.cfg from here on.
StartBegin ==
  /\ pc[Main] = "start" /\ Free
  /\ lock' = Main
  /\ IF done THEN Goto(Main, "startFailed") /\ UNCHANGED <<server, src>>
             ELSE Goto(Main, "starting") /\ server' = TRUE /\ src' = cfg
  /\ UNCHANGED <<ends, called, heap, cfg, box, router, refused, live, cache, lastEdit,
                 bounds, loc>>

\* One round of the loop.  A conflict on a node's port reassigns the node at once.
StartAttempt ==
  /\ pc[Main] = "starting"
  /\ LET c == heap[cfg]
     IN  \/ /\ done \/ Hopeless(c) \/ loc[Main].try = Attempts
            /\ Goto(Main, "startFailed")
            /\ UNCHANGED <<heap, live, loc, conflicts>>
         \/ /\ ~done /\ loc[Main].try < Attempts /\ Starts(c)
            /\ live' = live + 1
            /\ Goto(Main, "startCommit")
            /\ UNCHANGED <<heap, loc, conflicts>>
         \/ /\ ~done /\ loc[Main].try < Attempts /\ Conflicts(c)
            /\ heap' = [heap EXCEPT ![cfg] = Reassigned(c)]
            /\ Local(Main, [loc[Main] EXCEPT !.try = @ + 1])
            /\ Spend(c)
            /\ UNCHANGED <<live, pc>>
  /\ UNCHANGED <<lock, ends, accepted, cfg, src, box, router, refused, cache,
                 lastEdit, reloads>>

StartCommit ==
  /\ pc[Main] = "startCommit"
  /\ IF done THEN live' = live - 1 /\ Goto(Main, "startFailed") /\ UNCHANGED box
             ELSE box' = heap[cfg] /\ Goto(Main, "startRouter") /\ UNCHANGED live
  /\ UNCHANGED <<lock, ends, accepted, heap, cfg, src, router, refused, cache,
                 lastEdit, bounds, loc>>

\* The wait for healthy nodes, then the GeoIP router ...
StartRouter ==
  /\ pc[Main] = "startRouter"
  /\ IF done THEN Goto(Main, "startFailed") /\ UNCHANGED <<router, refused>>
             ELSE Goto(Main, "startLast") /\ StartGeoIPRouter(box)
  /\ UNCHANGED <<lock, ends, accepted, heap, cfg, src, box, live, cache, lastEdit,
                 bounds, loc>>

\* ... and the last look at ctx.
StartLast ==
  /\ pc[Main] = "startLast"
  /\ IF done THEN Goto(Main, "startFailed") /\ UNCHANGED lock
             ELSE Goto(Main, "wire") /\ lock' = NoObj
  /\ UNCHANGED <<ends, accepted, runtime, cache, lastEdit, bounds, loc>>

StartFailed ==
  /\ pc[Main] = "startFailed"
  /\ CloseComponents
  /\ lock' = NoObj
  /\ Goto(Main, "shutdown")
  /\ UNCHANGED <<closed, called, heap, cfg, src, refused, cache, lastEdit, bounds, loc>>

\* app.Run binds the settings API to the startup configuration.
Wire ==
  /\ pc[Main] = "wire"
  /\ src' = loc[Main].old
  /\ Goto(Main, "running")
  /\ UNCHANGED <<lock, ends, accepted, heap, cfg, box, router, refused, live, cache,
                 lastEdit, bounds, loc>>

\* The context of app.Run ends.
CancelParent ==
  /\ ~done
  /\ done' = TRUE
  /\ UNCHANGED <<lock, closed, accepted, runtime, cache, lastEdit, bounds, pc, loc>>

\* Close: mark and cancel first, then wait for the lifecycle lock.
Shutdown ==
  /\ pc[Main] \in {"running", "shutdown"}
  /\ closed' = TRUE /\ done' = TRUE
  /\ Goto(Main, "closing")
  /\ UNCHANGED <<lock, accepted, runtime, cache, lastEdit, bounds, loc>>

Close ==
  /\ pc[Main] = "closing" /\ Free
  /\ CloseComponents
  /\ Goto(Main, "end")
  /\ UNCHANGED <<lock, closed, called, heap, cfg, src, refused, cache, lastEdit,
                 bounds, loc>>

-----------------------------------------------------------------------------
(* Management requests. *)

\* The server accepts a request, whose handler goes on to wait for lifecycleMu.
Call(t) ==
  /\ pc[t] = "idle" /\ t \notin called /\ server
  /\ EarlyRequests \/ pc[Main] \notin {"start", "starting", "startCommit", "startRouter",
                                      "startLast", "startFailed", "wire"}
  /\ called' = called \cup {t}
  /\ UNCHANGED <<lock, ends, server, runtime, cache, lastEdit, bounds, pc, loc>>

\* The handler gets the mutex, perhaps only after Close has let go of it: Shutdown gives
\* handlers five seconds and stops none.
Arrives(t) ==
  /\ t \in called /\ Free
  /\ called' = called \ {t} /\ UNCHANGED server

\* A request that is not valid, a save that fails, a refresh of a manager that does not
\* run: nothing changes.
Refused(t) ==
  /\ Arrives(t)
  /\ UNCHANGED <<lock, ends, runtime, cache, lastEdit, bounds, pc, loc>>

\* handleSettings PUT: staged, saved, then published into *cfgSrc, all under
\* LockSettings.  A save that fails changes nothing.
EditSettings(t) ==
  /\ Arrives(t) /\ lastEdit < MaxEdits
  /\ lastEdit' = lastEdit + 1
  /\ heap' = [heap EXCEPT ![src].edit = lastEdit + 1]
  /\ UNCHANGED <<lock, ends, cfg, src, box, router, refused, live, cache, bounds, pc,
                 loc>>

\* CreateNode, UpdateNode, DeleteNode: changed in *m.cfg and saved; a failed save
\* takes the change back.
EditNode(t) ==
  /\ Arrives(t) /\ lastEdit < MaxEdits
  /\ lastEdit' = lastEdit + 1
  /\ heap' = [heap EXCEPT ![cfg].edit = lastEdit + 1]
  /\ UNCHANGED <<lock, ends, cfg, src, box, router, refused, live, cache, bounds, pc,
                 loc>>

\* TriggerReload: a copy of the current configuration, ports kept.
BeginReload(t) ==
  /\ Arrives(t) /\ reloads > 0
  /\ reloads' = reloads - 1
  /\ lock' = t
  /\ heap' = [heap EXCEPT ![Fresh] = heap[cfg]]
  /\ Local(t, [NoLocals EXCEPT !.op = "reload", !.new = Fresh])
  /\ Goto(t, "take")
  /\ UNCHANGED <<ends, cfg, src, box, router, refused, live, cache, lastEdit,
                 conflicts>>

Refreshed(c, s) == Contents(c.edit, s, IF s = c.sub THEN c.moved ELSE "no")

\* ReloadWithCurrentConfig: two snapshots under the lock, one to change and one to
\* go back to.
BeginRefresh(t, s) ==
  /\ Arrives(t) /\ reloads > 0
  /\ reloads' = reloads - 1
  /\ ~closed /\ box # NoBox
  /\ lock' = t
  /\ heap' = [heap EXCEPT ![Fresh] = Refreshed(heap[cfg], s)]
  /\ Local(t, [NoLocals EXCEPT !.op = "refresh", !.new = Fresh, !.keep = heap[cfg]])
  /\ Goto(t, "take")
  /\ UNCHANGED <<ends, cfg, src, box, router, refused, live, cache, lastEdit,
                 conflicts>>

-----------------------------------------------------------------------------
(* reloadLocked. *)

\* Checks and the removal of the current box, under mu.
Take(t) ==
  /\ pc[t] = "take"
  /\ IF closed \/ box = NoBox \/ done
     THEN Unlock(t) /\ UNCHANGED box
     ELSE /\ Local(t, [loc[t] EXCEPT !.old = cfg, !.was = box, !.try = 0])
          /\ box' = NoBox
          /\ Goto(t, "closeOld") /\ UNCHANGED lock
  /\ UNCHANGED <<ends, accepted, heap, cfg, src, router, refused, live, cache,
                 lastEdit, bounds>>

\* Seeded fault: the old instance keeps running while the new one comes up.
CloseOldLater(t) ==
  /\ pc[t] = "closeOld"
  /\ router' = NoBox
  /\ IF done THEN Unlock(t) ELSE Goto(t, "attempt") /\ UNCHANGED <<lock, loc>>
  /\ UNCHANGED <<ends, accepted, heap, cfg, src, box, refused, live, cache, lastEdit,
                 bounds>>

\* The old instance and router stop; the pause for the ports ends early on shutdown.
CloseOld(t) ==
  /\ pc[t] = "closeOld"
  /\ live' = live - 1 /\ router' = NoBox
  /\ \/ Goto(t, "attempt") /\ UNCHANGED <<lock, loc>>
     \/ done /\ Unlock(t)
  /\ UNCHANGED <<ends, accepted, heap, cfg, src, box, refused, cache, lastEdit, bounds>>

\* Seeded fault: the first conflict already moves the node.
AttemptMovesAtOnce(t) ==
  /\ pc[t] = "attempt"
  /\ LET c == heap[loc[t].new]
         last == loc[t].try + 1 = Attempts
     IN  \/ /\ done
            /\ Unlock(t) /\ UNCHANGED <<heap, live, conflicts>>
         \/ /\ ~done /\ Hopeless(c)
            /\ Local(t, [loc[t] EXCEPT !.try = 0])
            /\ Goto(t, "rollback") /\ UNCHANGED <<lock, heap, live, conflicts>>
         \/ /\ ~done /\ Starts(c)
            /\ live' = live + 1
            /\ Goto(t, "commit") /\ UNCHANGED <<lock, heap, loc, conflicts>>
         \/ /\ ~done /\ Conflicts(c)
            /\ Spend(c)
            /\ \/ UNCHANGED heap
               \/ /\ ~Hopeless(c)
                  /\ heap' = [heap EXCEPT ![loc[t].new] = Reassigned(c)]
            /\ Local(t, [loc[t] EXCEPT !.try = IF last THEN 0 ELSE @ + 1])
            /\ Goto(t, IF last THEN "rollback" ELSE "attempt")
            /\ UNCHANGED <<lock, live>>
  /\ UNCHANGED <<ends, accepted, cfg, src, box, router, refused, cache, lastEdit,
                 reloads>>

\* One round of the start loop; reassigning a port is left to the second half.
Attempt(t) ==
  /\ pc[t] = "attempt"
  /\ LET c == heap[loc[t].new]
         last == loc[t].try + 1 = Attempts
     IN  \/ /\ done
            /\ Unlock(t) /\ UNCHANGED <<heap, live, conflicts>>
         \/ /\ ~done /\ Hopeless(c)
            /\ Local(t, [loc[t] EXCEPT !.try = 0])
            /\ Goto(t, "rollback") /\ UNCHANGED <<lock, heap, live, conflicts>>
         \/ /\ ~done /\ Starts(c)
            /\ live' = live + 1
            /\ Goto(t, "commit") /\ UNCHANGED <<lock, heap, loc, conflicts>>
         \/ /\ ~done /\ Conflicts(c)
            /\ Spend(c)
            /\ \/ UNCHANGED heap
               \/ /\ loc[t].try >= Attempts \div 2 /\ ~Hopeless(c)
                  /\ heap' = [heap EXCEPT ![loc[t].new] = Reassigned(c)]
            /\ Local(t, [loc[t] EXCEPT !.try = IF last THEN 0 ELSE @ + 1])
            /\ Goto(t, IF last THEN "rollback" ELSE "attempt")
            /\ UNCHANGED <<lock, live>>
  /\ UNCHANGED <<ends, accepted, cfg, src, box, router, refused, cache, lastEdit,
                 reloads>>

\* The new instance becomes the current one, or is closed again on shutdown.
Commit(t) ==
  /\ pc[t] = "commit"
  /\ IF done THEN live' = live - 1 /\ Unlock(t) /\ UNCHANGED <<box, cfg>>
     ELSE /\ box' = heap[loc[t].new] /\ cfg' = loc[t].new
          /\ Goto(t, "publish") /\ UNCHANGED <<live, lock, loc>>
  /\ UNCHANGED <<ends, accepted, heap, src, router, refused, cache, lastEdit, bounds>>

\* Server.SetConfig, and a new router over the new pools or none.
Publish(t) ==
  /\ pc[t] = "publish"
  /\ src' = cfg
  /\ IF Routed(box) THEN StartGeoIPRouter(box) ELSE router' = NoBox /\ UNCHANGED refused
  /\ Goto(t, "reloaded")
  /\ UNCHANGED <<lock, ends, accepted, heap, cfg, box, live, cache, lastEdit, bounds,
                 loc>>

\* Success.  A refresh now writes its cache file; if that fails it reloads the
\* snapshot it kept.
Reloaded(t) ==
  /\ pc[t] = "reloaded"
  /\ \/ /\ loc[t].op = "reload" \/ loc[t].undo
        /\ Unlock(t) /\ UNCHANGED <<cache, heap>>
     \/ /\ loc[t].op = "refresh" /\ ~loc[t].undo
        /\ cache' = heap[loc[t].new].sub
        /\ Unlock(t) /\ UNCHANGED heap
     \/ /\ loc[t].op = "refresh" /\ ~loc[t].undo
        /\ heap' = [heap EXCEPT ![Fresh] = loc[t].keep]
        /\ Local(t, [loc[t] EXCEPT !.new = Fresh, !.undo = TRUE])
        /\ Goto(t, "take") /\ UNCHANGED <<lock, cache>>
  /\ UNCHANGED <<ends, accepted, cfg, src, box, router, refused, live, lastEdit,
                 bounds>>

-----------------------------------------------------------------------------
(* rollbackToOldConfig. *)

\* Seeded fault: one try, although the ports may still be draining.
RollbackOnce(t) ==
  /\ pc[t] = "rollback"
  /\ LET c == heap[loc[t].old]
     IN  \/ /\ ~done /\ Starts(c)
            /\ live' = live + 1
            /\ Goto(t, "rollbackCommit") /\ UNCHANGED conflicts
         \/ /\ Conflicts(c) \/ done
            /\ Spend(c) /\ Goto(t, "failed") /\ UNCHANGED live
  /\ UNCHANGED <<lock, ends, accepted, heap, cfg, src, box, router, refused, cache,
                 lastEdit, reloads, loc>>

Rollback(t) ==
  /\ pc[t] = "rollback"
  /\ LET c == heap[loc[t].old]
         last == loc[t].try + 1 = RollbackAttempts
     IN  \/ /\ done
            /\ Unlock(t) /\ UNCHANGED <<live, conflicts>>
         \/ /\ ~done /\ Hopeless(c)
            /\ Goto(t, "failed") /\ UNCHANGED <<lock, live, loc, conflicts>>
         \/ /\ ~done /\ Starts(c)
            /\ live' = live + 1
            /\ Goto(t, "rollbackCommit") /\ UNCHANGED <<lock, loc, conflicts>>
         \/ /\ ~done /\ Conflicts(c)
            /\ Spend(c)
            /\ Local(t, [loc[t] EXCEPT !.try = @ + 1])
            /\ Goto(t, IF last THEN "failed" ELSE "rollback")
            /\ UNCHANGED <<lock, live>>
  /\ UNCHANGED <<ends, accepted, heap, cfg, src, box, router, refused, cache,
                 lastEdit, reloads>>

\* Seeded fault: the rollback leaves the service without its router.
RollbackCommitUnrouted(t) ==
  /\ pc[t] = "rollbackCommit"
  /\ IF done
     THEN live' = live - 1 /\ Unlock(t) /\ UNCHANGED <<box, cfg, src>>
     ELSE /\ box' = heap[loc[t].old] /\ cfg' = loc[t].old /\ src' = loc[t].old
          /\ Goto(t, "failed") /\ UNCHANGED <<live, lock, loc>>
  /\ UNCHANGED <<ends, accepted, heap, router, refused, cache, lastEdit, bounds>>

RollbackCommit(t) ==
  /\ pc[t] = "rollbackCommit"
  /\ IF done
     THEN live' = live - 1 /\ Unlock(t) /\ UNCHANGED <<box, cfg, src, router, refused>>
     ELSE /\ box' = heap[loc[t].old] /\ cfg' = loc[t].old /\ src' = loc[t].old
          /\ StartGeoIPRouter(heap[loc[t].old])
          /\ Goto(t, "failed") /\ UNCHANGED <<live, lock, loc>>
  /\ UNCHANGED <<ends, accepted, heap, cache, lastEdit, bounds>>

\* Seeded fault: an early return without the deferred unlock.
FailedKeepsLock(t) ==
  /\ pc[t] = "failed"
  /\ Goto(t, "idle") /\ Local(t, NoLocals)
  /\ UNCHANGED <<lock, ends, accepted, runtime, cache, lastEdit, bounds>>

\* The reload reports its error.
Failed(t) ==
  /\ pc[t] = "failed"
  /\ Unlock(t)
  /\ UNCHANGED <<ends, accepted, runtime, cache, lastEdit, bounds>>

-----------------------------------------------------------------------------
MainStep == \/ StartBegin \/ StartAttempt \/ StartCommit \/ StartRouter \/ StartLast
            \/ StartFailed \/ Wire \/ Shutdown \/ Close
Lifecycle(t) == \/ Take(t) \/ CloseOld(t) \/ Attempt(t) \/ Commit(t) \/ Publish(t)
                \/ Reloaded(t) \/ Rollback(t) \/ RollbackCommit(t) \/ Failed(t)

Next ==
  \/ MainStep \/ CancelParent
  \/ \E t \in Request : \/ Call(t) \/ Refused(t) \/ EditSettings(t) \/ EditNode(t)
                        \/ BeginReload(t) \/ \E s \in Sub : BeginRefresh(t, s)
                        \/ Lifecycle(t)

Spec == Init /\ [][Next]_vars

\* Operations under way go on; the process is eventually asked to stop.
FairSpec == Spec /\ WF_vars(MainStep) /\ \A t \in Request : WF_vars(Lifecycle(t))

-----------------------------------------------------------------------------
(* Properties *)

TypeOK ==
  /\ lock \in Thread \cup {NoObj} /\ closed \in BOOLEAN /\ done \in BOOLEAN
  /\ server \in BOOLEAN /\ called \subseteq Request /\ refused \in BOOLEAN
  /\ cfg \in Obj /\ src \in Obj \cup {NoObj} /\ live \in Nat /\ cache \in Sub
  /\ \A t \in Request : pc[t] # "idle" <=> lock = t
  /\ closed => done

\* A reload never has two instances on the same ports, and whenever no lifecycle
\* operation is under way exactly the current box is running: no path, shutdown in
\* the middle of a reload included, leaks an instance.  Close is not undone by a reload
\* or startup it overtook: nothing runs after it.  (TypeOK: an operation under way holds the
\* lifecycle lock.)
OneInstance ==
  /\ TypeOK
  /\ live <= 1
  /\ Free => live = IF box = NoBox THEN 0 ELSE 1
  /\ pc[Main] = "end" => live = 0 /\ box = NoBox /\ router = NoBox

\* A reload that fails, for a bad node set or ports that drain slowly, leaves the
\* service running, unless an edit saved before, which a rollback keeps, is what fails.
ServiceSurvives ==
  /\ Free /\ ~done /\ pc[Main] \in {"wire", "running"}
  /\ \A e \in BadEdits : lastEdit < e
  => box # NoBox

\* A reload "keep[s] every preserved port stable": while fewer than half of the
\* attempts met ports that drain, only a node whose port another process owns is
\* moved.
ReloadKeepsPorts ==
  [][\A t \in Request : pc[t] = "attempt" /\ heap[loc[t].new] # heap'[loc[t].new]
                           => heap[loc[t].new].sub \in ForeignSubs]_vars

\* Between operations the GeoIP router never dials the pools of a box that is gone: where
\* routing is enabled it has the running box's, after a reload, a rollback or an undo,
\* unless its last start could not listen; otherwise there is none.  The subscription
\* cache file has the running node set: a cache write that fails takes the runtime back,
\* unless the program is stopping.  And "management writes and node CRUD cannot be lost":
\* whatever was saved, by a request that gets its turn after Close too, is in the
\* configuration that the next reload starts from.
RuntimeInStep ==
  /\ Free => heap[cfg].edit = lastEdit
  /\ Free /\ box # NoBox => /\ router = IF Routed(box) /\ ~refused THEN box ELSE NoBox
                            /\ ~done => cache = box.sub

\* Close returns although a reload or a rollback is under way when it is called.
ShutdownCompletes == (pc[Main] = "closing") ~> (pc[Main] = "end")
=============================================================================
