-------------------------- MODULE BoxManagerProofs --------------------------
(***************************************************************************)
(* Proofs about BoxManager, for any number of requests, objects, attempts, *)
(* edits and reloads.                                                      *)
(*                                                                         *)
(* InstanceInv says who is inside an operation, that only the holder of    *)
(* lifecycleMu is, which instance runs at which stage and which objects    *)
(* the operation owns; OneInstance follows.  RunInv says of every          *)
(* configuration an operation may still fall back to that it starts, and   *)
(* counts the tries against the conflicts left; ServiceSurvives and        *)
(* ReloadKeepsPorts follow when ports drain before the attempts run out.   *)
(* EditInv says that every such configuration holds the last edit; it      *)
(* needs requests to wait for the wiring of the server.                    *)
(***************************************************************************)
EXTENDS BoxManager, TLAPS

Built == [edit : Nat, sub : Sub, moved : {"no", "yes"}]
Locals == [op : {"none", "reload", "refresh"}, old : Obj \cup {NoObj}, new : Obj \cup {NoObj},
           was : Built \cup {NoBox}, keep : Built \cup {NoBox}, undo : BOOLEAN, try : Nat]

Working == {"take", "closeOld", "attempt", "commit", "publish", "reloaded", "rollback",
            "rollbackCommit", "failed"}
Starting == {"starting", "startCommit", "startRouter", "startLast", "startFailed"}
Open == {"wire", "running", "shutdown", "closing", "end"}
Stages == {"start"} \cup Starting \cup Open

BoxTypes ==
  /\ lock \in Thread \cup {NoObj} /\ closed \in BOOLEAN /\ done \in BOOLEAN
  /\ server \in BOOLEAN /\ called \subseteq Request /\ refused \in BOOLEAN
  /\ heap \in [Obj -> Built] /\ cfg \in Obj /\ src \in Obj \cup {NoObj}
  /\ box \in Built \cup {NoBox} /\ router \in Built \cup {NoBox}
  /\ live \in Nat /\ cache \in Sub /\ lastEdit \in Nat /\ conflicts \in Nat /\ reloads \in Nat
  /\ pc \in [Thread -> Working \cup {"idle"} \cup Stages]
  /\ loc \in [Thread -> Locals]

\* Whoever is inside an operation holds lifecycleMu, and nothing starts after Close: a
\* request that gets its turn then finds the manager closed.
LockInv ==
  /\ \A t \in Request : pc[t] \in Working \cup {"idle"} /\ (pc[t] # "idle" <=> lock = t)
  /\ pc[Main] \in Stages /\ (pc[Main] \in Starting <=> lock = Main)
  /\ closed => done
  /\ pc[Main] = "start" => /\ lock = NoObj /\ ~server /\ called = {}
                           /\ box = NoBox /\ router = NoBox
  /\ pc[Main] \in {"closing", "end"} => closed
  /\ pc[Main] = "end" => /\ box = NoBox /\ router = NoBox
                         /\ \A t \in Request : pc[t] \in {"idle", "take"}

\* The stages at which an instance runs that is not the current box, or none does.
Apart == {"startCommit", "closeOld", "commit", "rollbackCommit"}
Down == {"starting", "attempt", "rollback"}

LiveInv ==
  /\ \A t \in Thread : pc[t] \in Apart => box = NoBox /\ live = 1
  /\ \A t \in Thread : pc[t] \in Down => box = NoBox
  /\ (\A t \in Thread : pc[t] \notin Apart) => live = IF box = NoBox THEN 0 ELSE 1

\* An operation's own objects.
Owns(r, s, c) ==
  /\ s = "idle" => r = NoLocals
  /\ s # "idle" => r.op # "none" /\ r.new \in Obj
  /\ s \notin {"idle", "publish", "reloaded"} => r.new # c
  /\ s \in {"publish", "reloaded"} => r.new = c
  /\ s \notin {"idle", "take"} => r.old \in Obj /\ r.old # r.new
  /\ r.op = "refresh" => r.keep \in Built
  /\ r.undo => r.op = "refresh"

ObjInv ==
  /\ loc[Main].old \in Obj /\ loc[Main].new = NoObj
  /\ \A t \in Request : Owns(loc[t], pc[t], cfg)

InstanceInv == BoxTypes /\ LockInv /\ LiveInv /\ ObjInv

-----------------------------------------------------------------------------
\* Ports drain within half of the attempts and within the attempts of a rollback.
Drains == MaxConflicts < RollbackAttempts /\ MaxConflicts <= Attempts \div 2

\* c starts once its ports are free, unless its last edit is a bad one.
Runs(c) == c.sub \notin BadSubs /\ ~PortTaken(c)

Past == Working \ {"take"}

\* What an operation may still build or go back to, r being its locals, s its stage, h
\* the heap, b the current box and c the current configuration: the old configuration
\* ran, the new one starts once an instance of it did, and so does the one an undo
\* goes back to.
Builds(r, s, h, b, c) ==
  /\ s \in Past => Runs(h[r.old])
  /\ s \in {"commit", "publish", "reloaded"} => Starts(h[r.new])
  /\ s = "rollbackCommit" => Starts(h[r.old])
  /\ s \in {"rollback", "rollbackCommit", "failed"} => ~r.undo
  /\ s = "failed" /\ b # NoBox => c = r.old
  /\ r.op = "refresh" => Runs(r.keep) /\ r.keep.edit = h[r.new].edit
  /\ r.undo => Starts(h[r.new]) /\ h[r.new].sub = r.keep.sub

BuildInv ==
  /\ box # NoBox => Runs(heap[cfg]) /\ box.sub = heap[cfg].sub
  /\ pc[Main] = "startCommit" => Starts(heap[cfg])
  /\ \A t \in Request : Builds(loc[t], pc[t], heap, box, cfg)

\* Every try that failed although the configuration starts met a draining port, n
\* being the conflicts that are left.
Tries(r, s, h, n) ==
  /\ s = "closeOld" => r.try = 0
  /\ s = "attempt" /\ (r.undo \/ h[r.new].sub \notin ForeignSubs) =>
       Hopeless(h[r.new]) \/ r.try + n <= MaxConflicts
  /\ s = "rollback" => Hopeless(h[r.old]) \/ r.try + n <= MaxConflicts

TryInv ==
  /\ conflicts <= MaxConflicts
  /\ \A t \in Request : Tries(loc[t], pc[t], heap, conflicts)

\* No configuration is ahead of the edits.
EditBound ==
  /\ \A o \in Obj : heap[o].edit <= lastEdit
  /\ \A t \in Request : loc[t].op = "refresh" => loc[t].keep.edit <= lastEdit

Aside == {"closeOld", "attempt", "commit", "rollback", "rollbackCommit"}
NoBadEdit == \A e \in BadEdits : lastEdit < e

\* Outside the stages that set it aside there is a current box.
ServiceInv ==
  /\ pc[Main] \in {"startRouter", "startLast"} => box # NoBox
  /\ /\ ~done /\ pc[Main] \in {"wire", "running"} /\ NoBadEdit
     /\ \A t \in Request : pc[t] \notin Aside
     => box # NoBox

\* The cache file has the node set of the configuration an operation goes back to, k
\* being its contents.
Follows(r, s, h, b, c, k) ==
  /\ s = "take" /\ b # NoBox /\ ~r.undo =>
       k = h[c].sub /\ (r.op = "reload" => h[r.new].sub = k)
  /\ s \in Past /\ ~r.undo =>
       k = h[r.old].sub /\ (r.op = "reload" => h[r.new].sub = k)
  /\ r.op = "refresh" => r.keep.sub = k

\* The contents a router dials once its last start is over, c being the box's and f
\* whether that start failed.
Pools(c, f) == IF Routed(c) /\ ~f THEN c ELSE NoBox

\* The stages between the stop of the old router and the start of the new one.
Unrouted == {"starting", "startCommit", "startRouter",
             "attempt", "commit", "rollback", "rollbackCommit"}

UnroutedInv == \A t \in Thread : pc[t] \in Unrouted => router = NoBox

\* The router and the cache file go with the running box.
FollowInv ==
  /\ pc[Main] \notin {"startRouter", "startFailed"} /\ (\A t \in Request : pc[t] # "publish") =>
       (box # NoBox => router = Pools(box, refused))
  /\ pc[Main] \in {"start"} \cup Starting => cache = heap[cfg].sub
  /\ ~done => 
     /\ (\A t \in Request : pc[t] = "idle") => (box # NoBox => cache = heap[cfg].sub)
     /\ \A t \in Request : Follows(loc[t], pc[t], heap, box, cfg, cache)

RunInv == BuildInv /\ TryInv /\ EditBound /\ ServiceInv /\ FollowInv

\* What was saved is in every configuration an operation may end with, r being its
\* locals, s its stage, h the heap and n the last edit.
Edited(r, s, h, n) ==
  /\ s # "idle" => h[r.new].edit = n
  /\ s \in Past => h[r.old].edit = n
  /\ r.op = "refresh" => r.keep.edit = n

EditInv ==
  /\ heap[cfg].edit = lastEdit
  /\ \A t \in Request : Edited(loc[t], pc[t], heap, lastEdit)
  /\ (\A t \in Request : pc[t] # "publish") => src \in {NoObj, cfg}
  /\ pc[Main] \in {"start", "wire"} \cup Starting =>
       /\ cfg = loc[Main].old /\ called = {}
       /\ \A t \in Request : pc[t] = "idle"
  /\ server \/ called # {} => src # NoObj

-----------------------------------------------------------------------------
\* The holder of the lock is alone in its operation.
LEMMA Alone ==
  ASSUME LockInv, NEW t \in Request, pc[t] # "idle"
  PROVE  /\ lock = t /\ lock # NoObj /\ lock # Main /\ t # Main
         /\ \A q \in Request \ {t} : pc[q] = "idle"
         /\ pc[Main] \in Open
BY BoxConstants DEF LockInv, Stages, Starting, Open

\* So is the main thread while it starts the manager.
LEMMA MainAlone ==
  ASSUME LockInv, pc[Main] \in Starting
  PROVE  /\ lock = Main /\ lock # NoObj
         /\ \A q \in Request : pc[q] = "idle"
BY BoxConstants DEF LockInv, Stages, Starting, Open

\* While the lock is free no operation is under way.
LEMMA NobodyInside ==
  ASSUME LockInv, Free
  PROVE  /\ \A q \in Request : pc[q] = "idle"
         /\ pc[Main] \notin Starting
BY BoxConstants DEF LockInv, Free

\* No instance is ever built from the contents that stand for none.
LEMMA NoBoxIsNotBuilt == NoBox \notin Built /\ NoLocals \in Locals
BY BoxConstants DEF NoBox, Contents, Built, NoLocals, Locals

\* Start takes the lock.
LEMMA StartBeginInstance ==
  ASSUME InstanceInv, StartBegin
  PROVE  InstanceInv'
<1> USE BoxConstants, NoBoxIsNotBuilt, MainAlone, NobodyInside
<1>1. BoxTypes'
  <2>1. server' \in BOOLEAN /\ called' \subseteq Request /\ refused' \in BOOLEAN
    BY DEF StartBegin, InstanceInv, BoxTypes
  <2> QED BY <2>1 DEF StartBegin, Goto, ends, accepted, bounds, Free, InstanceInv, BoxTypes,
        Local, LiveInv, Apart, Thread, Starting, Open, Stages, Built, Locals
<1>2. LockInv'
  BY DEF StartBegin, Goto, ends, accepted, bounds, Free, InstanceInv, BoxTypes, LockInv,
     Thread, Working, Starting, Open, Stages
<1>3. LiveInv'
  BY DEF StartBegin, Goto, ends, accepted, bounds, Free, InstanceInv, BoxTypes, LockInv,
     LiveInv, Apart, Down, Thread, Working, Starting, Open, Stages
<1>4. ObjInv'
  BY DEF StartBegin, Goto, ends, accepted, bounds, Free, InstanceInv, BoxTypes, Local,
     ObjInv, Owns, Thread, Locals
<1> QED BY <1>1, <1>2, <1>3, <1>4 DEF InstanceInv

\* A round of the start loop brings up at most one instance.
LEMMA StartAttemptInstance ==
  ASSUME InstanceInv, StartAttempt
  PROVE  InstanceInv'
<1> USE BoxConstants, NoBoxIsNotBuilt, MainAlone, NobodyInside
<1>1. BoxTypes'
  <2>1. conflicts' \in Nat
    BY DEF StartAttempt, InstanceInv, BoxTypes, Spend, Starts, Conflicts
  <2>2. heap' \in [Obj -> Built]
    BY DEF StartAttempt, InstanceInv, BoxTypes, Reassigned, Built
  <2>3. loc' \in [Thread -> Locals]
    BY DEF StartAttempt, InstanceInv, BoxTypes, Local, Thread, Locals
  <2>4. pc' \in [Thread -> Working \cup {"idle"} \cup Stages] /\ live' \in Nat
    BY DEF StartAttempt, InstanceInv, BoxTypes, Goto, Stages, Starting, Open
  <2> QED BY <2>1, <2>2, <2>3, <2>4 DEF StartAttempt, InstanceInv, BoxTypes, ends,
         accepted
<1>2. LockInv'
  BY DEF StartAttempt, Goto, ends, accepted, bounds, Spend, Starts, Conflicts, Hopeless,
         PortTaken, Reassigned, InstanceInv, BoxTypes, LockInv, Thread, Working,
         Starting, Open, Stages
<1>3. LiveInv'
  BY DEF StartAttempt, Goto, ends, accepted, bounds, Spend, Starts, Conflicts, Hopeless,
         PortTaken, Reassigned, InstanceInv, BoxTypes, LockInv, LiveInv, Apart, Down,
         Thread, Working, Starting, Open, Stages
<1>4. ObjInv'
  BY DEF StartAttempt, Goto, ends, accepted, bounds, Spend, Starts, Conflicts, Hopeless,
         PortTaken, Reassigned, InstanceInv, BoxTypes, Local, ObjInv, Owns, Thread,
         Locals
<1> QED BY <1>1, <1>2, <1>3, <1>4 DEF InstanceInv

\* The instance becomes the current box or is closed.
LEMMA StartCommitInstance ==
  ASSUME InstanceInv, StartCommit
  PROVE  InstanceInv'
<1> USE BoxConstants, NoBoxIsNotBuilt, MainAlone, NobodyInside
<1>1. BoxTypes'
  BY DEF StartCommit, Goto, ends, accepted, bounds, InstanceInv, BoxTypes, Local, LiveInv,
     Apart, Thread, Starting, Open, Stages, Built, Locals
<1>2. LockInv'
  BY DEF StartCommit, Goto, ends, accepted, bounds, InstanceInv, BoxTypes, LockInv, Thread,
         Working, Starting, Open, Stages
<1>3. LiveInv'
  BY DEF StartCommit, Goto, ends, accepted, bounds, InstanceInv, BoxTypes, LockInv, LiveInv,
         Apart, Down, Thread, Working, Starting, Open, Stages
<1>4. ObjInv'
  BY DEF StartCommit, Goto, ends, accepted, bounds, InstanceInv, BoxTypes, Local, ObjInv,
     Owns, Thread, Locals
<1> QED BY <1>1, <1>2, <1>3, <1>4 DEF InstanceInv

\* The router comes up.
LEMMA StartRouterInstance ==
  ASSUME InstanceInv, StartRouter
  PROVE  InstanceInv'
<1> USE BoxConstants, NoBoxIsNotBuilt, MainAlone, NobodyInside
<1>1. BoxTypes'
  <2>1. server' \in BOOLEAN /\ called' \subseteq Request /\ refused' \in BOOLEAN
    BY DEF StartRouter, StartGeoIPRouter, accepted, InstanceInv, BoxTypes
  <2> QED BY <2>1 DEF StartRouter, StartGeoIPRouter, Goto, ends, accepted, bounds,
        InstanceInv, BoxTypes, Local, LiveInv, Apart, Thread, Starting, Open, Stages, Built,
        Locals
<1>2. LockInv'
  BY DEF StartRouter, StartGeoIPRouter, Goto, ends, accepted, bounds, InstanceInv, BoxTypes,
     LockInv, Thread, Working, Starting, Open, Stages
<1>3. LiveInv'
  BY DEF StartRouter, StartGeoIPRouter, Goto, ends, accepted, bounds, InstanceInv, BoxTypes,
     LockInv, LiveInv, Apart, Down, Thread, Working, Starting, Open, Stages
<1>4. ObjInv'
  BY DEF StartRouter, StartGeoIPRouter, Goto, ends, accepted, bounds, InstanceInv, BoxTypes,
     Local, ObjInv, Owns, Thread, Locals
<1> QED BY <1>1, <1>2, <1>3, <1>4 DEF InstanceInv

\* Start lets go of the lock.
LEMMA StartLastInstance ==
  ASSUME InstanceInv, StartLast
  PROVE  InstanceInv'
<1> USE BoxConstants, NoBoxIsNotBuilt, MainAlone, NobodyInside
<1>1. BoxTypes'
  BY DEF StartLast, Goto, ends, accepted, bounds, runtime, InstanceInv, BoxTypes, Local,
     LiveInv, Apart, Thread, Starting, Open, Stages, Built, Locals
<1>2. LockInv'
  BY DEF StartLast, Goto, ends, accepted, bounds, runtime, InstanceInv, BoxTypes, LockInv,
     Thread, Working, Starting, Open, Stages
<1>3. LiveInv'
  BY DEF StartLast, Goto, ends, accepted, bounds, runtime, InstanceInv, BoxTypes, LockInv,
         LiveInv, Apart, Down, Thread, Working, Starting, Open, Stages
<1>4. ObjInv'
  BY DEF StartLast, Goto, ends, accepted, bounds, runtime, InstanceInv, BoxTypes, Local,
     ObjInv, Owns, Thread, Locals
<1> QED BY <1>1, <1>2, <1>3, <1>4 DEF InstanceInv

\* A failed start closes everything.
LEMMA StartFailedInstance ==
  ASSUME InstanceInv, StartFailed
  PROVE  InstanceInv'
<1> USE BoxConstants, NoBoxIsNotBuilt, MainAlone, NobodyInside
<1>1. BoxTypes'
  <2>1. server' \in BOOLEAN /\ called' \subseteq Request /\ refused' \in BOOLEAN
    BY DEF StartFailed, CloseComponents, InstanceInv, BoxTypes
  <2> QED BY <2>1 DEF StartFailed, Goto, ends, accepted, bounds, CloseComponents,
        InstanceInv, BoxTypes, Local, LiveInv, Apart, Thread, Starting, Open, Stages, Built,
        Locals
<1>2. LockInv'
  BY DEF StartFailed, Goto, ends, accepted, bounds, CloseComponents, InstanceInv, BoxTypes,
         LockInv, Thread, Working, Starting, Open, Stages
<1>3. LiveInv'
  BY DEF StartFailed, Goto, ends, accepted, bounds, CloseComponents, InstanceInv, BoxTypes,
         LockInv, LiveInv, Apart, Down, Thread, Working, Starting, Open, Stages
<1>4. ObjInv'
  BY DEF StartFailed, Goto, ends, accepted, bounds, CloseComponents, InstanceInv, BoxTypes,
     Local, ObjInv, Owns, Thread, Locals
<1> QED BY <1>1, <1>2, <1>3, <1>4 DEF InstanceInv

\* app.Run binds the settings API.
LEMMA WireInstance ==
  ASSUME InstanceInv, Wire
  PROVE  InstanceInv'
<1> USE BoxConstants, NoBoxIsNotBuilt, MainAlone, NobodyInside
<1>1. BoxTypes'
  BY DEF Wire, Goto, ends, accepted, bounds, InstanceInv, BoxTypes, Local, LiveInv, Apart,
     Thread, Starting, Open, Stages, Built, Locals
<1>2. LockInv'
  BY DEF Wire, Goto, ends, accepted, bounds, InstanceInv, BoxTypes, LockInv, Thread, Working,
         Starting, Open, Stages
<1>3. LiveInv'
  BY DEF Wire, Goto, ends, accepted, bounds, InstanceInv, BoxTypes, LockInv, LiveInv, Apart,
     Down, Thread, Working, Starting, Open, Stages
<1>4. ObjInv'
  BY DEF Wire, Goto, ends, accepted, bounds, InstanceInv, BoxTypes, Local, ObjInv, Owns,
     Thread, Locals
<1> QED BY <1>1, <1>2, <1>3, <1>4 DEF InstanceInv

\* Close is called.
LEMMA ShutdownInstance ==
  ASSUME InstanceInv, Shutdown
  PROVE  InstanceInv'
<1> USE BoxConstants, NoBoxIsNotBuilt, MainAlone, NobodyInside
<1>1. BoxTypes'
  BY DEF Shutdown, Goto, ends, accepted, bounds, runtime, InstanceInv, BoxTypes, Local,
     LiveInv, Apart, Thread, Starting, Open, Stages, Built, Locals
<1>2. LockInv'
  BY DEF Shutdown, Goto, ends, accepted, bounds, runtime, InstanceInv, BoxTypes, LockInv,
     Thread, Working, Starting, Open, Stages
<1>3. LiveInv'
  BY DEF Shutdown, Goto, ends, accepted, bounds, runtime, InstanceInv, BoxTypes, LockInv,
     LiveInv, Apart, Down, Thread, Working, Starting, Open, Stages
<1>4. ObjInv'
  BY DEF Shutdown, Goto, ends, accepted, bounds, runtime, InstanceInv, BoxTypes, Local,
     ObjInv, Owns, Thread, Locals
<1> QED BY <1>1, <1>2, <1>3, <1>4 DEF InstanceInv

\* Close has the lock.
LEMMA CloseInstance ==
  ASSUME InstanceInv, Close
  PROVE  InstanceInv'
<1> USE BoxConstants, NoBoxIsNotBuilt, MainAlone, NobodyInside
<1>1. BoxTypes'
  <2>1. server' \in BOOLEAN /\ called' \subseteq Request /\ refused' \in BOOLEAN
    BY DEF Close, CloseComponents, InstanceInv, BoxTypes
  <2> QED BY <2>1 DEF Close, Goto, ends, accepted, bounds, CloseComponents, Free,
        InstanceInv, BoxTypes, Local, LiveInv, Apart, Thread, Starting, Open, Stages, Built,
        Locals
<1>2. LockInv'
  BY DEF Close, Goto, ends, accepted, bounds, CloseComponents, Free, InstanceInv, BoxTypes,
         LockInv, Thread, Working, Starting, Open, Stages
<1>3. LiveInv'
  BY DEF Close, Goto, ends, accepted, bounds, CloseComponents, Free, InstanceInv, BoxTypes,
         LockInv, LiveInv, Apart, Down, Thread, Working, Starting, Open, Stages
<1>4. ObjInv'
  BY DEF Close, Goto, ends, accepted, bounds, CloseComponents, Free, InstanceInv, BoxTypes,
     Local, ObjInv, Owns, Thread, Locals
<1> QED BY <1>1, <1>2, <1>3, <1>4 DEF InstanceInv

\* The context ends under anybody.
LEMMA CancelParentInstance ==
  ASSUME InstanceInv, CancelParent
  PROVE  InstanceInv'
<1> USE BoxConstants, NoBoxIsNotBuilt, MainAlone, NobodyInside
<1>1. BoxTypes'
  BY DEF CancelParent, Goto, ends, accepted, bounds, runtime, InstanceInv, BoxTypes, Local,
         LiveInv, Apart, Thread, Starting, Open, Stages, Built, Locals
<1>2. LockInv'
  BY DEF CancelParent, Goto, ends, accepted, bounds, runtime, InstanceInv, BoxTypes, LockInv,
         Thread, Working, Starting, Open, Stages
<1>3. LiveInv'
  BY DEF CancelParent, Goto, ends, accepted, bounds, runtime, InstanceInv, BoxTypes, LockInv,
         LiveInv, Apart, Down, Thread, Working, Starting, Open, Stages
<1>4. ObjInv'
  BY DEF CancelParent, Goto, ends, accepted, bounds, runtime, InstanceInv, BoxTypes, Local,
         ObjInv, Owns, Thread, Locals
<1> QED BY <1>1, <1>2, <1>3, <1>4 DEF InstanceInv

\* An allocation is never refused and never hands out an object in use.
LEMMA FreshIsFree ==
  ASSUME InstanceInv,
         \/ \A q \in Request : pc[q] = "idle"
         \/ \E t \in Request : pc[t] = "reloaded"
  PROVE  /\ Fresh \in Obj /\ Fresh # cfg /\ Fresh # src
         /\ \A q \in Thread : Fresh # loc[q].old /\ Fresh # loc[q].new
<1>1. PICK a \in Obj, b \in Obj, c \in Obj, d \in Obj : Used \cap Obj \subseteq {a, b, c, d}
  <2>1. cfg \in Obj /\ src \in Obj \cup {NoObj} /\ loc[Main].old \in Obj /\ loc[Main].new = NoObj
    BY DEF InstanceInv, BoxTypes, ObjInv
  <2>s. PICK x \in Obj : src \in Obj => x = src
    BY <2>1
  <2>2. NoLocals.old = NoObj /\ NoLocals.new = NoObj /\ NoObj \notin Obj
    BY BoxConstants DEF NoLocals
  <2>3. CASE \A q \in Request : pc[q] = "idle"
    <3>1. \A q \in Request : loc[q] = NoLocals
      BY <2>3 DEF InstanceInv, ObjInv, Owns
    <3>2. \A q \in Thread : {loc[q].old, loc[q].new} \subseteq {NoObj, loc[Main].old}
      BY <2>1, <2>2, <3>1 DEF Thread
    <3>3. Used \cap Obj \subseteq {cfg, src, loc[Main].old}
      BY <2>2, <3>2 DEF Used
    <3>4. Used \cap Obj \subseteq {cfg, x, loc[Main].old, loc[Main].old}
      BY <2>1, <2>2, <2>s, <3>3
    <3> QED BY <3>4, <2>1
  <2>4. ASSUME NEW t \in Request, pc[t] = "reloaded"
        PROVE  \E a, b, c, d \in Obj : Used \cap Obj \subseteq {a, b, c, d}
    <3>1. loc[t].new = cfg /\ loc[t].old \in Obj
      BY <2>4 DEF InstanceInv, ObjInv, Owns
    <3>2. \A q \in Request \ {t} : loc[q] = NoLocals
      BY <2>4, Alone DEF InstanceInv, ObjInv, Owns
    <3>3. \A q \in Thread :
            {loc[q].old, loc[q].new} \subseteq {NoObj, cfg, loc[Main].old, loc[t].old}
      BY <2>1, <2>2, <3>1, <3>2 DEF Thread
    <3>4. Used \cap Obj \subseteq {cfg, src, loc[Main].old, loc[t].old}
      BY <2>2, <3>3 DEF Used
    <3>5. Used \cap Obj \subseteq {cfg, x, loc[Main].old, loc[t].old}
      BY <2>1, <2>2, <2>s, <3>4
    <3> QED BY <3>1, <3>5, <2>1
  <2> QED BY <2>3, <2>4
<1>2. PICK o \in Obj : o \notin {a, b, c, d}
  BY EnoughObjects
<1>3. o \notin Used
  BY <1>1, <1>2
<1>4. Fresh \in Obj /\ Fresh \notin Used
  BY <1>2, <1>3 DEF Fresh
<1> QED BY <1>4 DEF Used

\* What a change of a thread's locals leaves alone.
LEMMA TryUpdate ==
  ASSUME NEW r \in Locals, NEW n \in Nat, NEW u, u = [r EXCEPT !.try = n]
  PROVE  /\ u \in Locals /\ u.op = r.op /\ u.old = r.old /\ u.new = r.new /\ u.keep = r.keep
         /\ u.undo = r.undo /\ u.try = n
BY DEF Locals

\* The locals a reload begins with ...
LEMMA ReloadLocals ==
  ASSUME NEW o \in Obj, NEW u, u = [NoLocals EXCEPT !.op = "reload", !.new = o]
  PROVE  u \in Locals /\ u.op = "reload" /\ u.new = o /\ ~u.undo
BY NoBoxIsNotBuilt DEF Locals, NoLocals

\* ... and the ones of a thread that does nothing.
LEMMA IdleLocals == NoLocals.op = "none" /\ ~NoLocals.undo
BY DEF NoLocals

\* The step of a request changes its own locals only.
LEMMA OwnStep ==
  ASSUME InstanceInv, NEW t \in Request, NEW s, NEW r \in Locals,
         pc' = [pc EXCEPT ![t] = s], loc' = [loc EXCEPT ![t] = r],
         Owns(r, s, cfg'), \A q \in Request \ {t} : pc[q] = "idle"
  PROVE  ObjInv' /\ loc' \in [Thread -> Locals]
<1>1. t # Main /\ t \in Thread /\ Main \in Thread /\ pc[t] = pc[t]
  BY BoxConstants DEF Thread
<1>2. loc'[Main] = loc[Main] /\ loc'[t] = r /\ pc'[t] = s /\ loc' \in [Thread -> Locals]
  BY <1>1 DEF InstanceInv, BoxTypes
<1>3. ASSUME NEW q \in Request \ {t} PROVE Owns(loc'[q], pc'[q], cfg')
  <2>1. pc'[q] = "idle" /\ loc'[q] = NoLocals
    BY <1>1 DEF InstanceInv, BoxTypes, ObjInv, Owns, Thread
  <2> QED BY <2>1, IdleLocals DEF Owns
<1>4. \A q \in Request : Owns(loc'[q], pc'[q], cfg')
  BY <1>2, <1>3
<1> QED BY <1>2, <1>4 DEF ObjInv, InstanceInv

\* A request that is accepted, or answered with an error, changes nothing else.
LEMMA CallInstance ==
  ASSUME InstanceInv, NEW t \in Request, Call(t) \/ Refused(t)
  PROVE  InstanceInv'
<1>1. /\ lock' = lock /\ closed' = closed /\ done' = done /\ server' = server /\ heap' = heap
      /\ cfg' = cfg /\ src' = src /\ box' = box /\ router' = router /\ refused' = refused
      /\ live' = live /\ cache' = cache /\ lastEdit' = lastEdit /\ conflicts' = conflicts
      /\ reloads' = reloads /\ pc' = pc /\ loc' = loc
      /\ called' \subseteq Request /\ (pc[Main] = "start" => called' = {})
  BY DEF Call, Refused, Arrives, ends, runtime, bounds, InstanceInv, BoxTypes, LockInv
<1> QED BY <1>1 DEF InstanceInv, BoxTypes, LockInv, LiveInv, ObjInv

\* A settings edit only changes the contents of an object.
LEMMA EditSettingsInstance ==
  ASSUME InstanceInv, NEW t \in Request, EditSettings(t)
  PROVE  InstanceInv'
<1>1. BoxTypes'
  <2>1. server' \in BOOLEAN /\ called' \subseteq Request /\ refused' \in BOOLEAN
    BY DEF EditSettings, Arrives, InstanceInv, BoxTypes
  <2>2. heap' \in [Obj -> Built]
    <3>1. heap \in [Obj -> Built] /\ lastEdit + 1 \in Nat
      BY DEF InstanceInv, BoxTypes
    <3>2. \A c \in Built : [c EXCEPT !.edit = lastEdit + 1] \in Built
      BY <3>1 DEF Built
    <3>3. heap' = [heap EXCEPT ![src] = [heap[src] EXCEPT !.edit = lastEdit + 1]]
      BY DEF EditSettings
    <3> QED BY <3>1, <3>2, <3>3
  <2> QED BY <2>1, <2>2 DEF EditSettings, InstanceInv, BoxTypes, ends, bounds
<1>2. ObjInv'
  BY DEF EditSettings, Arrives, InstanceInv, ObjInv, Owns
<1>3. LockInv'
  BY BoxConstants, NoBoxIsNotBuilt, Alone, NobodyInside
     DEF EditSettings, Arrives, Free, ends, accepted, bounds, runtime, InstanceInv, BoxTypes,
         LockInv, Thread, Working, Starting, Open, Stages, Goto, Unlock
<1>4. LiveInv'
  BY BoxConstants, NoBoxIsNotBuilt, Alone, NobodyInside
     DEF EditSettings, Arrives, Free, ends, accepted, bounds, runtime, InstanceInv, BoxTypes,
         LockInv, ObjInv, Owns, LiveInv, Apart, Down, Thread, Working, Starting, Open, Stages,
         Goto, Unlock
<1> QED BY <1>1, <1>2, <1>3, <1>4 DEF InstanceInv

\* So does a node edit.
LEMMA EditNodeInstance ==
  ASSUME InstanceInv, NEW t \in Request, EditNode(t)
  PROVE  InstanceInv'
<1>1. BoxTypes'
  BY DEF EditNode, Arrives, InstanceInv, BoxTypes, Built, ends, accepted, bounds, runtime
<1>2. ObjInv'
  BY DEF EditNode, Arrives, InstanceInv, ObjInv, Owns
<1>3. LockInv'
  BY BoxConstants, NoBoxIsNotBuilt, Alone, NobodyInside
     DEF EditNode, Arrives, Free, ends, accepted, bounds, runtime, InstanceInv, BoxTypes, LockInv,
         Thread, Working, Starting, Open, Stages, Goto, Unlock
<1>4. LiveInv'
  BY BoxConstants, NoBoxIsNotBuilt, Alone, NobodyInside
     DEF EditNode, Arrives, Free, ends, accepted, bounds, runtime, InstanceInv, BoxTypes, LockInv,
         ObjInv, Owns, LiveInv, Apart, Down, Thread, Working, Starting, Open, Stages, Goto,
         Unlock
<1> QED BY <1>1, <1>2, <1>3, <1>4 DEF InstanceInv

\* A reload takes the lock and an object of its own.
LEMMA BeginReloadInstance ==
  ASSUME InstanceInv, NEW t \in Request, BeginReload(t)
  PROVE  InstanceInv'
<1>a. \A q \in Request : pc[q] = "idle"
  BY NobodyInside DEF BeginReload, Arrives, InstanceInv
<1>o. PICK o : o = Fresh
  OBVIOUS
<1>b. o \in Obj /\ o # cfg
  BY <1>a, <1>o, FreshIsFree
<1>c. PICK r : r = [NoLocals EXCEPT !.op = "reload", !.new = o]
  OBVIOUS
<1>d. r \in Locals /\ r.op = "reload" /\ r.new = o /\ ~r.undo
  BY <1>b, <1>c, ReloadLocals, Zenon
<1>e. /\ pc' = [pc EXCEPT ![t] = "take"] /\ loc' = [loc EXCEPT ![t] = r]
      /\ heap' = [heap EXCEPT ![o] = heap[cfg]] /\ cfg' = cfg
  BY <1>c, <1>o DEF BeginReload, Goto, Local
<1>f. Owns(r, "take", cfg')
  BY <1>b, <1>d, <1>e DEF Owns
<1>2. ObjInv' /\ loc' \in [Thread -> Locals]
  BY <1>a, <1>d, <1>e, <1>f, OwnStep
<1>1. BoxTypes'
  <2>1. heap' \in [Obj -> Built] /\ pc' \in [Thread -> Working \cup {"idle"} \cup Stages]
    BY <1>b, <1>e DEF InstanceInv, BoxTypes, Working
  <2>2. reloads' \in Nat /\ lock' \in Thread \cup {NoObj}
    BY DEF BeginReload, InstanceInv, BoxTypes, Thread
  <2>3. /\ closed' = closed /\ done' = done /\ cfg' = cfg /\ src' = src /\ box' = box
        /\ router' = router /\ refused' = refused /\ live' = live /\ cache' = cache
        /\ lastEdit' = lastEdit /\ conflicts' = conflicts /\ server' = server
        /\ called' = called \ {t}
    BY DEF BeginReload, Arrives, ends
  <2> QED BY <2>1, <2>2, <2>3, <1>2 DEF InstanceInv, BoxTypes
<1>3. LockInv'
  BY BoxConstants, NoBoxIsNotBuilt, Alone, NobodyInside
     DEF BeginReload, Arrives, Free, ends, accepted, bounds, runtime, InstanceInv, BoxTypes,
         LockInv, Thread, Working, Starting, Open, Stages, Goto, Unlock
<1>4. LiveInv'
  BY BoxConstants, NoBoxIsNotBuilt, Alone, NobodyInside
     DEF BeginReload, Arrives, Free, ends, accepted, bounds, runtime, InstanceInv, BoxTypes,
         LockInv, ObjInv, Owns, LiveInv, Apart, Down, Thread, Working, Starting, Open, Stages,
         Goto, Unlock
<1> QED BY <1>1, <1>2, <1>3, <1>4 DEF InstanceInv

\* A refresh does, and keeps the contents to go back to.
LEMMA BeginRefreshInstance ==
  ASSUME InstanceInv, NEW t \in Request, NEW s \in Sub, BeginRefresh(t, s)
  PROVE  InstanceInv'
<1>a. \A q \in Request : pc[q] = "idle"
  BY NobodyInside DEF BeginRefresh, Arrives, InstanceInv
<1>o. PICK o : o = Fresh
  OBVIOUS
<1>b. o \in Obj /\ o # cfg /\ heap[cfg] \in Built
  BY <1>a, <1>o, FreshIsFree DEF InstanceInv, BoxTypes
<1>k. PICK k \in Built : k = heap[cfg]
  BY <1>b
<1>c. PICK r : r = [NoLocals EXCEPT !.op = "refresh", !.new = o, !.keep = k]
  OBVIOUS
<1>d. r \in Locals /\ r.op = "refresh" /\ r.new = o /\ ~r.undo /\ r.keep = heap[cfg]
  <2>1. r \in Locals /\ r.op = "refresh" /\ r.new = o /\ ~r.undo /\ r.keep = k
    BY <1>b, <1>c, NoBoxIsNotBuilt DEF Locals, NoLocals
  <2> QED BY <2>1, <1>k
<1>e. /\ pc' = [pc EXCEPT ![t] = "take"] /\ loc' = [loc EXCEPT ![t] = r]
      /\ heap' = [heap EXCEPT ![o] = Refreshed(heap[cfg], s)] /\ cfg' = cfg
  BY <1>c, <1>k, <1>o DEF BeginRefresh, Goto, Local
<1>f. Owns(r, "take", cfg')
  BY <1>b, <1>d, <1>e DEF Owns
<1>2. ObjInv' /\ loc' \in [Thread -> Locals]
  BY <1>a, <1>d, <1>e, <1>f, OwnStep
<1>g. Refreshed(heap[cfg], s) \in Built
  BY <1>b DEF Refreshed, Contents, Built
<1>1. BoxTypes'
  <2>1. heap' \in [Obj -> Built] /\ pc' \in [Thread -> Working \cup {"idle"} \cup Stages]
    BY <1>b, <1>e, <1>g DEF InstanceInv, BoxTypes, Working
  <2>2. reloads' \in Nat /\ lock' \in Thread \cup {NoObj}
    BY DEF BeginRefresh, InstanceInv, BoxTypes, Thread
  <2>3. /\ closed' = closed /\ done' = done /\ cfg' = cfg /\ src' = src /\ box' = box
        /\ router' = router /\ refused' = refused /\ live' = live /\ cache' = cache
        /\ lastEdit' = lastEdit /\ conflicts' = conflicts /\ server' = server
        /\ called' = called \ {t}
    BY DEF BeginRefresh, Arrives, ends
  <2> QED BY <2>1, <2>2, <2>3, <1>2 DEF InstanceInv, BoxTypes
<1>3. LockInv'
  BY BoxConstants, NoBoxIsNotBuilt, Alone, NobodyInside
     DEF BeginRefresh, Arrives, Free, ends, accepted, bounds, runtime, InstanceInv, BoxTypes,
         LockInv, Thread, Working, Starting, Open, Stages, Goto, Unlock
<1>4. LiveInv'
  BY BoxConstants, NoBoxIsNotBuilt, Alone, NobodyInside
     DEF BeginRefresh, Arrives, Free, ends, accepted, bounds, runtime, InstanceInv, BoxTypes,
         LockInv, ObjInv, Owns, LiveInv, Apart, Down, Thread, Working, Starting, Open, Stages,
         Goto, Unlock
<1> QED BY <1>1, <1>2, <1>3, <1>4 DEF InstanceInv

\* The current box becomes the instance the operation has to close.
LEMMA TakeInstance ==
  ASSUME InstanceInv, NEW t \in Request, Take(t)
  PROVE  InstanceInv'
<1>a. pc[t] # "idle" /\ \A q \in Request \ {t} : pc[q] = "idle"
  BY Alone DEF Take, InstanceInv
<1>b. /\ loc[t] \in Locals /\ NoLocals \in Locals /\ NoLocals.op = "none" /\ ~NoLocals.undo
      /\ Owns(loc[t], pc[t], cfg)
  BY NoBoxIsNotBuilt, IdleLocals DEF InstanceInv, BoxTypes, Thread, ObjInv
<1>c. PICK r \in Locals, s \in Working \cup {"idle"} :
        /\ pc' = [pc EXCEPT ![t] = s] /\ loc' = [loc EXCEPT ![t] = r]
        /\ Owns(r, s, cfg')
  <2>1. CASE closed \/ box = NoBox \/ done
    BY <2>1, <1>b DEF Take, Unlock, Goto, Local, Owns
  <2>2. CASE ~(closed \/ box = NoBox \/ done)
    <3>l. PICK l \in Locals, o \in Obj, w \in Built \cup {NoBox} : l = loc[t] /\ o = cfg /\ w = box
      BY <1>b DEF InstanceInv, BoxTypes
    <3>1. PICK r : r = [l EXCEPT !.old = o, !.was = w, !.try = 0]
      OBVIOUS
    <3>2. /\ r \in Locals /\ r.op = loc[t].op /\ r.old = cfg /\ r.new = loc[t].new
          /\ r.keep = loc[t].keep /\ r.undo = loc[t].undo
      <4>1. /\ r \in Locals /\ r.op = l.op /\ r.old = o /\ r.new = l.new
            /\ r.keep = l.keep /\ r.undo = l.undo
        BY <3>1 DEF Locals
      <4> QED BY <4>1, <3>l
    <3>3. /\ pc[t] = "take" /\ pc' = [pc EXCEPT ![t] = "closeOld"]
          /\ loc' = [loc EXCEPT ![t] = r] /\ cfg' = cfg
      BY <3>1, <3>l, <2>2 DEF Take, Goto, Local
    <3>4. Owns(r, "closeOld", cfg')
      BY <3>2, <3>3, <1>b DEF Owns, InstanceInv, BoxTypes
    <3> QED BY <3>2, <3>3, <3>4 DEF Working
  <2> QED BY <2>1, <2>2
<1>2. ObjInv' /\ loc' \in [Thread -> Locals]
  BY <1>a, <1>c, OwnStep
<1>1. BoxTypes'
  BY <1>2, <1>c DEF Take, InstanceInv, BoxTypes, Thread, Working, ends, accepted, bounds,
     runtime, Unlock
<1>3. LockInv'
  BY BoxConstants, NoBoxIsNotBuilt, Alone, NobodyInside
     DEF Take, Free, ends, accepted, bounds, runtime, InstanceInv, BoxTypes, LockInv, Thread,
         Working, Starting, Open, Stages, Goto, Unlock
<1>4. LiveInv'
  BY BoxConstants, NoBoxIsNotBuilt, Alone, NobodyInside
     DEF Take, Free, ends, accepted, bounds, runtime, InstanceInv, BoxTypes, LockInv, ObjInv,
         Owns, LiveInv, Apart, Down, Thread, Working, Starting, Open, Stages, Goto, Unlock
<1> QED BY <1>1, <1>2, <1>3, <1>4 DEF InstanceInv

\* It is closed, and nothing runs.
LEMMA CloseOldInstance ==
  ASSUME InstanceInv, NEW t \in Request, CloseOld(t)
  PROVE  InstanceInv'
<1>a. pc[t] # "idle" /\ \A q \in Request \ {t} : pc[q] = "idle"
  BY Alone DEF CloseOld, InstanceInv
<1>b. /\ loc[t] \in Locals /\ NoLocals \in Locals /\ NoLocals.op = "none" /\ ~NoLocals.undo
      /\ Owns(loc[t], pc[t], cfg)
  BY NoBoxIsNotBuilt, IdleLocals DEF InstanceInv, BoxTypes, Thread, ObjInv
<1>c. PICK r \in Locals, s \in Working \cup {"idle"} :
        /\ pc' = [pc EXCEPT ![t] = s] /\ loc' = [loc EXCEPT ![t] = r]
        /\ Owns(r, s, cfg')
  <2>1. loc = [loc EXCEPT ![t] = loc[t]]
    BY DEF InstanceInv, BoxTypes
  <2> QED BY <2>1, <1>b DEF CloseOld, Unlock, Goto, Local, Owns, Working
<1>2. ObjInv' /\ loc' \in [Thread -> Locals]
  BY <1>a, <1>c, OwnStep
<1>1. BoxTypes'
  BY <1>2, <1>c DEF CloseOld, InstanceInv, BoxTypes, Thread, Working, ends, accepted, bounds,
       runtime, Unlock, LiveInv, Apart
<1>3. LockInv'
  BY BoxConstants, NoBoxIsNotBuilt, Alone, NobodyInside
     DEF CloseOld, Free, ends, accepted, bounds, runtime, InstanceInv, BoxTypes, LockInv, Thread,
         Working, Starting, Open, Stages, Goto, Unlock
<1>4. LiveInv'
  BY BoxConstants, NoBoxIsNotBuilt, Alone, NobodyInside
     DEF CloseOld, Free, ends, accepted, bounds, runtime, InstanceInv, BoxTypes, LockInv, ObjInv,
         Owns, LiveInv, Apart, Down, Thread, Working, Starting, Open, Stages, Goto, Unlock
<1> QED BY <1>1, <1>2, <1>3, <1>4 DEF InstanceInv

\* That instance becomes the current box, or is closed.
LEMMA CommitInstance ==
  ASSUME InstanceInv, NEW t \in Request, Commit(t)
  PROVE  InstanceInv'
<1>a. pc[t] # "idle" /\ \A q \in Request \ {t} : pc[q] = "idle"
  BY Alone DEF Commit, InstanceInv
<1>b. /\ loc[t] \in Locals /\ NoLocals \in Locals /\ NoLocals.op = "none" /\ ~NoLocals.undo
      /\ Owns(loc[t], pc[t], cfg)
  BY NoBoxIsNotBuilt, IdleLocals DEF InstanceInv, BoxTypes, Thread, ObjInv
<1>c. PICK r \in Locals, s \in Working \cup {"idle"} :
        /\ pc' = [pc EXCEPT ![t] = s] /\ loc' = [loc EXCEPT ![t] = r]
        /\ Owns(r, s, cfg')
  <2>1. loc = [loc EXCEPT ![t] = loc[t]]
    BY DEF InstanceInv, BoxTypes
  <2> QED BY <2>1, <1>b DEF Commit, Unlock, Goto, Local, Owns, Working
<1>2. ObjInv' /\ loc' \in [Thread -> Locals]
  BY <1>a, <1>c, OwnStep
<1>1. BoxTypes'
  BY <1>2, <1>b, <1>c DEF Commit, InstanceInv, BoxTypes, Thread, Working, ends, accepted,
     bounds, runtime, Unlock, LiveInv, Apart, Owns
<1>3. LockInv'
  BY BoxConstants, NoBoxIsNotBuilt, Alone, NobodyInside
     DEF Commit, Free, ends, accepted, bounds, runtime, InstanceInv, BoxTypes, LockInv, Thread,
         Working, Starting, Open, Stages, Goto, Unlock
<1>4. LiveInv'
  BY BoxConstants, NoBoxIsNotBuilt, Alone, NobodyInside
     DEF Commit, Free, ends, accepted, bounds, runtime, InstanceInv, BoxTypes, LockInv, ObjInv,
         Owns, LiveInv, Apart, Down, Thread, Working, Starting, Open, Stages, Goto, Unlock
<1> QED BY <1>1, <1>2, <1>3, <1>4 DEF InstanceInv

\* The server and the router follow.
LEMMA PublishInstance ==
  ASSUME InstanceInv, NEW t \in Request, Publish(t)
  PROVE  InstanceInv'
<1>a. pc[t] # "idle" /\ \A q \in Request \ {t} : pc[q] = "idle"
  BY Alone DEF Publish, StartGeoIPRouter, InstanceInv
<1>b. /\ loc[t] \in Locals /\ NoLocals \in Locals /\ NoLocals.op = "none" /\ ~NoLocals.undo
      /\ Owns(loc[t], pc[t], cfg)
  BY NoBoxIsNotBuilt, IdleLocals DEF InstanceInv, BoxTypes, Thread, ObjInv
<1>c. PICK r \in Locals, s \in Working \cup {"idle"} :
        /\ pc' = [pc EXCEPT ![t] = s] /\ loc' = [loc EXCEPT ![t] = r]
        /\ Owns(r, s, cfg')
  <2>1. loc = [loc EXCEPT ![t] = loc[t]]
    BY DEF InstanceInv, BoxTypes
  <2> QED BY <2>1, <1>b DEF Publish, StartGeoIPRouter, Unlock, Goto, Local, Owns, Working
<1>2. ObjInv' /\ loc' \in [Thread -> Locals]
  BY <1>a, <1>c, OwnStep
<1>1. BoxTypes'
  BY <1>2, <1>c DEF Publish, StartGeoIPRouter, InstanceInv, BoxTypes, Thread, Working, ends,
     accepted, bounds, runtime
<1>3. LockInv'
  BY BoxConstants, NoBoxIsNotBuilt, Alone, NobodyInside
     DEF Publish, StartGeoIPRouter, Free, ends, accepted, bounds, runtime,
         InstanceInv, BoxTypes, LockInv, Thread,
         Working, Starting, Open, Stages, Goto, Unlock
<1>4. LiveInv'
  BY BoxConstants, NoBoxIsNotBuilt, Alone, NobodyInside
     DEF Publish, StartGeoIPRouter, Free, ends, accepted, bounds, runtime,
         InstanceInv, BoxTypes, LockInv, ObjInv,
         Owns, LiveInv, Apart, Down, Thread, Working, Starting, Open, Stages, Goto, Unlock
<1> QED BY <1>1, <1>2, <1>3, <1>4 DEF InstanceInv

\* That instance becomes the current box again, or is closed.
LEMMA RollbackCommitInstance ==
  ASSUME InstanceInv, NEW t \in Request, RollbackCommit(t)
  PROVE  InstanceInv'
<1>a. pc[t] # "idle" /\ \A q \in Request \ {t} : pc[q] = "idle"
  BY Alone DEF RollbackCommit, StartGeoIPRouter, InstanceInv
<1>b. /\ loc[t] \in Locals /\ NoLocals \in Locals /\ NoLocals.op = "none" /\ ~NoLocals.undo
      /\ Owns(loc[t], pc[t], cfg)
  BY NoBoxIsNotBuilt, IdleLocals DEF InstanceInv, BoxTypes, Thread, ObjInv
<1>c. PICK r \in Locals, s \in Working \cup {"idle"} :
        /\ pc' = [pc EXCEPT ![t] = s] /\ loc' = [loc EXCEPT ![t] = r]
        /\ Owns(r, s, cfg')
  <2>1. loc = [loc EXCEPT ![t] = loc[t]]
    BY DEF InstanceInv, BoxTypes
  <2> QED BY <2>1, <1>b DEF RollbackCommit, StartGeoIPRouter, Unlock, Goto, Local, Owns,
        Working
<1>2. ObjInv' /\ loc' \in [Thread -> Locals]
  BY <1>a, <1>c, OwnStep
<1>1. BoxTypes'
  <2>1. server' \in BOOLEAN /\ called' \subseteq Request /\ refused' \in BOOLEAN
    BY DEF RollbackCommit, StartGeoIPRouter, accepted, InstanceInv, BoxTypes
  <2> QED BY <2>1, <1>2, <1>b, <1>c DEF RollbackCommit, StartGeoIPRouter, InstanceInv,
        BoxTypes, Thread, Working, ends, bounds, runtime, Unlock, LiveInv, Apart, Owns
<1>3. LockInv'
  BY BoxConstants, NoBoxIsNotBuilt, Alone, NobodyInside
     DEF RollbackCommit, StartGeoIPRouter, Free, ends, accepted, bounds, runtime,
         InstanceInv, BoxTypes, LockInv,
         Thread, Working, Starting, Open, Stages, Goto, Unlock
<1>4. LiveInv'
  BY BoxConstants, NoBoxIsNotBuilt, Alone, NobodyInside
     DEF RollbackCommit, StartGeoIPRouter, Free, ends, accepted, bounds, runtime,
         InstanceInv, BoxTypes, LockInv,
         ObjInv, Owns, LiveInv, Apart, Down, Thread, Working, Starting, Open, Stages, Goto,
         Unlock
<1> QED BY <1>1, <1>2, <1>3, <1>4 DEF InstanceInv

\* A failure gives the lock back.
LEMMA FailedInstance ==
  ASSUME InstanceInv, NEW t \in Request, Failed(t)
  PROVE  InstanceInv'
<1>a. pc[t] # "idle" /\ \A q \in Request \ {t} : pc[q] = "idle"
  BY Alone DEF Failed, InstanceInv
<1>b. /\ loc[t] \in Locals /\ NoLocals \in Locals /\ NoLocals.op = "none" /\ ~NoLocals.undo
      /\ Owns(loc[t], pc[t], cfg)
  BY NoBoxIsNotBuilt, IdleLocals DEF InstanceInv, BoxTypes, Thread, ObjInv
<1>c. PICK r \in Locals, s \in Working \cup {"idle"} :
        /\ pc' = [pc EXCEPT ![t] = s] /\ loc' = [loc EXCEPT ![t] = r]
        /\ Owns(r, s, cfg')
  <2>1. loc = [loc EXCEPT ![t] = loc[t]]
    BY DEF InstanceInv, BoxTypes
  <2> QED BY <2>1, <1>b DEF Failed, Unlock, Goto, Local, Owns, Working
<1>2. ObjInv' /\ loc' \in [Thread -> Locals]
  BY <1>a, <1>c, OwnStep
<1>1. BoxTypes'
  BY <1>2, <1>c DEF Failed, InstanceInv, BoxTypes, Thread, Working, ends, accepted, bounds,
     runtime, Unlock
<1>3. LockInv'
  BY BoxConstants, NoBoxIsNotBuilt, Alone, NobodyInside
     DEF Failed, Free, ends, accepted, bounds, runtime, InstanceInv, BoxTypes, LockInv, Thread,
         Working, Starting, Open, Stages, Goto, Unlock
<1>4. LiveInv'
  BY BoxConstants, NoBoxIsNotBuilt, Alone, NobodyInside
     DEF Failed, Free, ends, accepted, bounds, runtime, InstanceInv, BoxTypes, LockInv, ObjInv,
         Owns, LiveInv, Apart, Down, Thread, Working, Starting, Open, Stages, Goto, Unlock
<1> QED BY <1>1, <1>2, <1>3, <1>4 DEF InstanceInv

\* A round of the start loop brings up one instance, or none.
LEMMA AttemptInstance ==
  ASSUME InstanceInv, NEW t \in Request, Attempt(t)
  PROVE  InstanceInv'
<1>a. pc[t] # "idle" /\ \A q \in Request \ {t} : pc[q] = "idle"
  BY Alone DEF Attempt, InstanceInv
<1>b. /\ loc[t] \in Locals /\ NoLocals \in Locals /\ NoLocals.op = "none" /\ ~NoLocals.undo
      /\ Owns(loc[t], pc[t], cfg)
  BY NoBoxIsNotBuilt, IdleLocals DEF InstanceInv, BoxTypes, Thread, ObjInv
<1>n. /\ loc[t].try \in Nat /\ 0 \in Nat /\ loc[t].try + 1 \in Nat
  BY <1>b DEF Locals
<1>u. \A n \in Nat : \E u \in Locals :
        /\ u = [loc[t] EXCEPT !.try = n] /\ u.op = loc[t].op /\ u.old = loc[t].old
        /\ u.new = loc[t].new /\ u.keep = loc[t].keep /\ u.undo = loc[t].undo
  <2> TAKE n \in Nat
  <2>1. PICK l \in Locals : l = loc[t]
    BY <1>b
  <2>2. PICK u : u = [l EXCEPT !.try = n]
    OBVIOUS
  <2>3. /\ u \in Locals /\ u.op = l.op /\ u.old = l.old /\ u.new = l.new /\ u.keep = l.keep
        /\ u.undo = l.undo
    BY <2>2, TryUpdate
  <2> QED BY <2>1, <2>2, <2>3
<1>v. pc[t] \in {"rollback", "commit", "attempt"} /\ cfg' = cfg
  BY DEF Attempt
<1>c. PICK r \in Locals, s \in Working \cup {"idle"} :
        /\ pc' = [pc EXCEPT ![t] = s] /\ loc' = [loc EXCEPT ![t] = r]
        /\ Owns(r, s, cfg')
  <2>1. CASE pc' = [pc EXCEPT ![t] = "idle"] /\ loc' = [loc EXCEPT ![t] = NoLocals]
    BY <2>1, <1>b DEF Owns
  <2>2. CASE loc' = loc /\ \E s \in {"rollback", "commit", "attempt"} : pc' = [pc EXCEPT ![t] = s]
    <3>1. loc = [loc EXCEPT ![t] = loc[t]]
      BY DEF InstanceInv, BoxTypes
    <3> QED BY <3>1, <2>2, <1>b, <1>v DEF Owns, Working
  <2>3. CASE \E n \in Nat, s \in {"rollback", "commit", "attempt"} :
               pc' = [pc EXCEPT ![t] = s] /\ loc' = [loc EXCEPT ![t] = [loc[t] EXCEPT !.try = n]]
    <3>1. PICK n \in Nat, s \in {"rollback", "commit", "attempt"} :
            pc' = [pc EXCEPT ![t] = s] /\ loc' = [loc EXCEPT ![t] = [loc[t] EXCEPT !.try = n]]
      BY <2>3
    <3>2. PICK u \in Locals :
            /\ u = [loc[t] EXCEPT !.try = n] /\ u.op = loc[t].op /\ u.old = loc[t].old
            /\ u.new = loc[t].new /\ u.keep = loc[t].keep /\ u.undo = loc[t].undo
      BY <1>u
    <3>3. Owns(u, s, cfg')
      BY <3>2, <1>b, <1>v DEF Owns
    <3> QED BY <3>1, <3>2, <3>3 DEF Working
  <2> QED BY <2>1, <2>2, <2>3, <1>n DEF Attempt, Unlock, Goto, Local
<1>2. ObjInv' /\ loc' \in [Thread -> Locals]
  BY <1>a, <1>c, OwnStep
<1>1. BoxTypes'
  <2>1. conflicts' \in Nat
    BY DEF Attempt, InstanceInv, BoxTypes, Spend, Starts, Conflicts
  <2>2. heap' \in [Obj -> Built]
    BY DEF Attempt, InstanceInv, BoxTypes, Reassigned, Built
  <2>3. live' \in Nat
    BY DEF Attempt, InstanceInv, BoxTypes
  <2> QED BY <2>1, <2>2, <2>3, <1>2, <1>c DEF Attempt, InstanceInv, BoxTypes, Thread,
       Working, ends, accepted, bounds, runtime, Unlock
<1>3. LockInv'
  BY BoxConstants, NoBoxIsNotBuilt, Alone, NobodyInside
     DEF Attempt, Free, ends, accepted, bounds, runtime, InstanceInv, BoxTypes, LockInv, Thread,
         Working, Starting, Open, Stages, Goto, Unlock
<1>4. LiveInv'
  BY BoxConstants, NoBoxIsNotBuilt, Alone, NobodyInside
     DEF Attempt, Free, ends, accepted, bounds, runtime, InstanceInv, BoxTypes, LockInv, ObjInv,
         Owns, LiveInv, Apart, Down, Thread, Working, Starting, Open, Stages, Goto, Unlock
<1> QED BY <1>1, <1>2, <1>3, <1>4 DEF InstanceInv

\* A round of the rollback brings up one instance, or none.
LEMMA RollbackInstance ==
  ASSUME InstanceInv, NEW t \in Request, Rollback(t)
  PROVE  InstanceInv'
<1>a. pc[t] # "idle" /\ \A q \in Request \ {t} : pc[q] = "idle"
  BY Alone DEF Rollback, InstanceInv
<1>b. /\ loc[t] \in Locals /\ NoLocals \in Locals /\ NoLocals.op = "none" /\ ~NoLocals.undo
      /\ Owns(loc[t], pc[t], cfg)
  BY NoBoxIsNotBuilt, IdleLocals DEF InstanceInv, BoxTypes, Thread, ObjInv
<1>n. /\ loc[t].try \in Nat /\ 0 \in Nat /\ loc[t].try + 1 \in Nat
  BY <1>b DEF Locals
<1>u. \A n \in Nat : \E u \in Locals :
        /\ u = [loc[t] EXCEPT !.try = n] /\ u.op = loc[t].op /\ u.old = loc[t].old
        /\ u.new = loc[t].new /\ u.keep = loc[t].keep /\ u.undo = loc[t].undo
  <2> TAKE n \in Nat
  <2>1. PICK l \in Locals : l = loc[t]
    BY <1>b
  <2>2. PICK u : u = [l EXCEPT !.try = n]
    OBVIOUS
  <2>3. /\ u \in Locals /\ u.op = l.op /\ u.old = l.old /\ u.new = l.new /\ u.keep = l.keep
        /\ u.undo = l.undo
    BY <2>2, TryUpdate
  <2> QED BY <2>1, <2>2, <2>3
<1>v. pc[t] \in {"failed", "rollbackCommit", "rollback"} /\ cfg' = cfg
  BY DEF Rollback
<1>c. PICK r \in Locals, s \in Working \cup {"idle"} :
        /\ pc' = [pc EXCEPT ![t] = s] /\ loc' = [loc EXCEPT ![t] = r]
        /\ Owns(r, s, cfg')
  <2>1. CASE pc' = [pc EXCEPT ![t] = "idle"] /\ loc' = [loc EXCEPT ![t] = NoLocals]
    BY <2>1, <1>b DEF Owns
  <2>2. CASE /\ loc' = loc
             /\ \E s \in {"failed", "rollbackCommit", "rollback"} : pc' = [pc EXCEPT ![t] = s]
    <3>1. loc = [loc EXCEPT ![t] = loc[t]]
      BY DEF InstanceInv, BoxTypes
    <3> QED BY <3>1, <2>2, <1>b, <1>v DEF Owns, Working
  <2>3. CASE \E n \in Nat, s \in {"failed", "rollbackCommit", "rollback"} :
               pc' = [pc EXCEPT ![t] = s] /\ loc' = [loc EXCEPT ![t] = [loc[t] EXCEPT !.try = n]]
    <3>1. PICK n \in Nat, s \in {"failed", "rollbackCommit", "rollback"} :
            pc' = [pc EXCEPT ![t] = s] /\ loc' = [loc EXCEPT ![t] = [loc[t] EXCEPT !.try = n]]
      BY <2>3
    <3>2. PICK u \in Locals :
            /\ u = [loc[t] EXCEPT !.try = n] /\ u.op = loc[t].op /\ u.old = loc[t].old
            /\ u.new = loc[t].new /\ u.keep = loc[t].keep /\ u.undo = loc[t].undo
      BY <1>u
    <3>3. Owns(u, s, cfg')
      BY <3>2, <1>b, <1>v DEF Owns
    <3> QED BY <3>1, <3>2, <3>3 DEF Working
  <2> QED BY <2>1, <2>2, <2>3, <1>n DEF Rollback, Unlock, Goto, Local
<1>2. ObjInv' /\ loc' \in [Thread -> Locals]
  BY <1>a, <1>c, OwnStep
<1>1. BoxTypes'
  <2>1. conflicts' \in Nat
    BY DEF Rollback, InstanceInv, BoxTypes, Spend, Starts, Conflicts
  <2>2. heap' \in [Obj -> Built]
    BY DEF Rollback, InstanceInv, BoxTypes, Reassigned, Built
  <2>3. live' \in Nat
    BY DEF Rollback, InstanceInv, BoxTypes
  <2> QED BY <2>1, <2>2, <2>3, <1>2, <1>c DEF Rollback, InstanceInv, BoxTypes, Thread,
       Working, ends, accepted, bounds, runtime, Unlock
<1>3. LockInv'
  BY BoxConstants, NoBoxIsNotBuilt, Alone, NobodyInside
     DEF Rollback, Free, ends, accepted, bounds, runtime, InstanceInv, BoxTypes, LockInv, Thread,
         Working, Starting, Open, Stages, Goto, Unlock
<1>4. LiveInv'
  BY BoxConstants, NoBoxIsNotBuilt, Alone, NobodyInside
     DEF Rollback, Free, ends, accepted, bounds, runtime, InstanceInv, BoxTypes, LockInv, ObjInv,
         Owns, LiveInv, Apart, Down, Thread, Working, Starting, Open, Stages, Goto, Unlock
<1> QED BY <1>1, <1>2, <1>3, <1>4 DEF InstanceInv

\* A success gives the lock back, or goes on with a second reload of its own.
LEMMA ReloadedInstance ==
  ASSUME InstanceInv, NEW t \in Request, Reloaded(t)
  PROVE  InstanceInv'
<1>a. pc[t] # "idle" /\ \A q \in Request \ {t} : pc[q] = "idle"
  BY Alone DEF Reloaded, InstanceInv
<1>b. /\ loc[t] \in Locals /\ NoLocals \in Locals /\ NoLocals.op = "none" /\ ~NoLocals.undo
      /\ Owns(loc[t], pc[t], cfg)
  BY NoBoxIsNotBuilt, IdleLocals DEF InstanceInv, BoxTypes, Thread, ObjInv
<1>o. PICK o : o = Fresh
  OBVIOUS
<1>p. pc[t] = "reloaded" /\ cfg' = cfg /\ o \in Obj /\ o # cfg
  BY <1>o, FreshIsFree DEF Reloaded
<1>c. PICK r \in Locals, s \in Working \cup {"idle"} :
        /\ pc' = [pc EXCEPT ![t] = s] /\ loc' = [loc EXCEPT ![t] = r]
        /\ Owns(r, s, cfg')
  <2>1. CASE Unlock(t)
    BY <2>1, <1>b DEF Unlock, Goto, Local, Owns
  <2>2. CASE /\ loc[t].op = "refresh"
             /\ Local(t, [loc[t] EXCEPT !.new = o, !.undo = TRUE]) /\ Goto(t, "take")
    <3>l. PICK l \in Locals : l = loc[t]
      BY <1>b
    <3>1. PICK r : r = [l EXCEPT !.new = o, !.undo = TRUE]
      OBVIOUS
    <3>2. /\ r \in Locals /\ r.op = loc[t].op /\ r.old = loc[t].old /\ r.new = o
          /\ r.keep = loc[t].keep
      <4>1. r \in Locals /\ r.op = l.op /\ r.old = l.old /\ r.new = o /\ r.keep = l.keep
        BY <3>1, <1>p DEF Locals
      <4> QED BY <4>1, <3>l
    <3>3. Owns(r, "take", cfg')
      BY <2>2, <3>2, <1>b, <1>p DEF Owns
    <3> QED BY <2>2, <3>l, <3>1, <3>2, <3>3 DEF Local, Goto, Working
  <2> QED BY <2>1, <2>2, <1>o DEF Reloaded
<1>2. ObjInv' /\ loc' \in [Thread -> Locals]
  BY <1>a, <1>c, OwnStep
<1>1. BoxTypes'
  <2>1. heap' \in [Obj -> Built] /\ cache' \in Sub
    BY <1>b, <1>o, <1>p DEF Reloaded, InstanceInv, BoxTypes, Built, Owns
  <2> QED BY <2>1, <1>2, <1>c DEF Reloaded, InstanceInv, BoxTypes, Thread, Working, ends,
       accepted, bounds, runtime, Unlock
<1>3. LockInv'
  BY BoxConstants, NoBoxIsNotBuilt, Alone, NobodyInside
     DEF Reloaded, Free, ends, accepted, bounds, runtime, InstanceInv, BoxTypes, LockInv, Thread,
         Working, Starting, Open, Stages, Goto, Unlock
<1>4. LiveInv'
  BY BoxConstants, NoBoxIsNotBuilt, Alone, NobodyInside
     DEF Reloaded, Free, ends, accepted, bounds, runtime, InstanceInv, BoxTypes, LockInv, ObjInv,
         Owns, LiveInv, Apart, Down, Thread, Working, Starting, Open, Stages, Goto, Unlock
<1> QED BY <1>1, <1>2, <1>3, <1>4 DEF InstanceInv

-----------------------------------------------------------------------------
(* One instance. *)

\* The invariant holds at startup ...
LEMMA InstanceInit == Init => InstanceInv
<1> SUFFICES ASSUME Init PROVE InstanceInv
  OBVIOUS
<1>1. PICK o \in Obj :
        /\ heap = [x \in Obj |-> Startup] /\ cfg = o
        /\ loc = [t \in Thread |-> IF t = Main THEN [NoLocals EXCEPT !.old = o] ELSE NoLocals]
  BY DEF Init
<1>2. Startup \in Built
  BY BoxConstants DEF Startup, Contents, Built
<1>3. PICK r : r = [NoLocals EXCEPT !.old = o]
  OBVIOUS
<1>4. r \in Locals /\ r.old = o /\ r.new = NoObj
  BY <1>3, NoBoxIsNotBuilt DEF NoLocals, Locals
<1>5. loc = [t \in Thread |-> IF t = Main THEN r ELSE NoLocals]
  BY <1>1, <1>3
<1>6. BoxTypes
  <2>1. server \in BOOLEAN /\ called \subseteq Request /\ refused \in BOOLEAN
        /\ closed \in BOOLEAN /\ done \in BOOLEAN
    BY DEF Init
  <2>2. heap \in [Obj -> Built] /\ cfg \in Obj /\ loc \in [Thread -> Locals]
    BY <1>1, <1>2, <1>4, <1>5, NoBoxIsNotBuilt
  <2>3. pc \in [Thread -> Working \cup {"idle"} \cup Stages]
    BY DEF Init, Stages
  <2> QED BY <2>1, <2>2, <2>3, BoxConstants DEF Init, BoxTypes, Thread
<1>7. LockInv /\ LiveInv
  BY BoxConstants DEF Init, LockInv, LiveInv, Thread, Stages, Starting, Open, Working,
     Apart, Down
<1>8. ObjInv
  BY <1>4, <1>5, BoxConstants, IdleLocals DEF Init, ObjInv, Owns, Thread
<1> QED BY <1>6, <1>7, <1>8 DEF InstanceInv

\* ... and every step keeps it.
LEMMA InstanceStep == InstanceInv /\ [Next]_vars => InstanceInv'
<1> SUFFICES ASSUME InstanceInv, [Next]_vars PROVE InstanceInv'
  OBVIOUS
<1>1. CASE UNCHANGED vars
  BY <1>1 DEF vars, InstanceInv, BoxTypes, LockInv, LiveInv, ObjInv
<1>2. CASE MainStep
  BY <1>2, StartBeginInstance, StartAttemptInstance, StartCommitInstance,
     StartRouterInstance, StartLastInstance, StartFailedInstance, WireInstance,
     ShutdownInstance, CloseInstance DEF MainStep
<1>3. CASE CancelParent
  BY <1>3, CancelParentInstance
<1>4. ASSUME NEW t \in Request,
             Call(t) \/ Refused(t) \/ EditSettings(t) \/ EditNode(t) \/ BeginReload(t)
      PROVE  InstanceInv'
  BY <1>4, CallInstance, EditSettingsInstance, EditNodeInstance, BeginReloadInstance
<1>5. ASSUME NEW t \in Request, NEW s \in Sub, BeginRefresh(t, s) PROVE InstanceInv'
  BY <1>5, BeginRefreshInstance
<1>6. ASSUME NEW t \in Request, Lifecycle(t) PROVE InstanceInv'
  BY <1>6, TakeInstance, CloseOldInstance, AttemptInstance, CommitInstance,
     PublishInstance, ReloadedInstance, RollbackInstance, RollbackCommitInstance,
     FailedInstance DEF Lifecycle
<1> QED BY <1>1, <1>2, <1>3, <1>4, <1>5, <1>6 DEF Next

\* Who is inside an operation, which instance runs and what the operation owns.
LEMMA InstanceAlways == Spec => []InstanceInv
BY InstanceInit, InstanceStep, PTL DEF Spec

\* No path of a start, a reload, a rollback or a shutdown ever has two instances up
\* or leaks one, and nothing runs after Close.
THEOREM OneInstanceAlways == Spec => []OneInstance
<1>1. InstanceInv => OneInstance
  <2> SUFFICES ASSUME InstanceInv PROVE OneInstance
    OBVIOUS
  <2>1. TypeOK
    BY DEF InstanceInv, BoxTypes, LockInv, TypeOK
  <2>2. live <= 1
    BY DEF InstanceInv, BoxTypes, LiveInv
  <2>3. Free => live = IF box = NoBox THEN 0 ELSE 1
    BY NobodyInside, BoxConstants
       DEF InstanceInv, LiveInv, LockInv, Apart, Stages, Starting, Open, Thread
  <2>4. pc[Main] = "end" => live = 0 /\ box = NoBox /\ router = NoBox
    BY DEF InstanceInv, LockInv, LiveInv, Apart, Thread
  <2> QED BY <2>1, <2>2, <2>3, <2>4 DEF OneInstance
<1> QED BY <1>1, InstanceAlways, PTL

-----------------------------------------------------------------------------
(* The service survives. *)

\* No router is up between the stop of the old one and the start of the new one.
LEMMA UnroutedStep == InstanceInv /\ UnroutedInv /\ [Next]_vars => UnroutedInv'
<1> SUFFICES ASSUME InstanceInv, UnroutedInv, [Next]_vars PROVE UnroutedInv'
  OBVIOUS
<1> USE BoxConstants DEF UnroutedInv, Unrouted, InstanceInv, BoxTypes
<1>1. CASE UNCHANGED vars
  BY <1>1 DEF vars
<1>2. CASE StartBegin
  BY <1>2, NobodyInside DEF StartBegin, Goto, LockInv, Thread
<1>3. CASE StartAttempt \/ StartCommit \/ StartLast \/ Wire \/ Shutdown \/ CancelParent
  BY <1>3 DEF StartAttempt, StartCommit, StartLast, Wire, Shutdown, CancelParent, Goto,
     runtime, Thread
<1>4. CASE StartRouter
  BY <1>4, MainAlone DEF StartRouter, Goto, Starting, Thread
<1>5. CASE StartFailed \/ Close
  BY <1>5 DEF StartFailed, Close, CloseComponents
<1>6. ASSUME NEW t \in Request,
             \/ Call(t) \/ Refused(t) \/ EditSettings(t) \/ EditNode(t) \/ BeginReload(t)
             \/ \E s \in Sub : BeginRefresh(t, s)
      PROVE  UnroutedInv'
  BY <1>6 DEF Call, Refused, EditSettings, EditNode, BeginReload, BeginRefresh, Goto,
     runtime, Thread
<1>7. ASSUME NEW t \in Request, Lifecycle(t) PROVE UnroutedInv'
  <2>1. CASE Take(t) \/ Attempt(t) \/ Reloaded(t) \/ Rollback(t) \/ Failed(t)
    BY <2>1 DEF Take, Attempt, Reloaded, Rollback, Failed, Goto, Unlock, runtime, Thread
  <2>2. CASE CloseOld(t)
    BY <2>2 DEF CloseOld
  <2>3. CASE Commit(t)
    BY <2>3 DEF Commit, Goto, Unlock, Thread
  <2>4. CASE Publish(t) \/ RollbackCommit(t)
    <3>1. /\ pc[t] # "idle"
          /\ Goto(t, "reloaded") \/ Goto(t, "failed") \/ Goto(t, "idle")
      BY <2>4 DEF Publish, RollbackCommit, Unlock
    <3>2. \A q \in Thread \ {t} : pc[q] \in {"idle"} \cup Open
      BY <3>1, Alone DEF Thread
    <3>3. \A q \in Thread : pc'[q] \in {"idle", "reloaded", "failed"} \cup Open
      BY <3>1, <3>2 DEF Goto
    <3> QED BY <3>3 DEF Open
  <2> QED BY <1>7, <2>1, <2>2, <2>3, <2>4 DEF Lifecycle
<1> QED BY <1>1, <1>2, <1>3, <1>4, <1>5, <1>6, <1>7 DEF Next, MainStep

\* So it is in every state.
LEMMA UnroutedAlways == Spec => []UnroutedInv
<1>1. Init => UnroutedInv
  BY DEF Init, UnroutedInv
<1> QED BY <1>1, UnroutedStep, InstanceAlways, PTL DEF Spec

\* Half of the attempts are fewer than all of them.
LEMMA HalfIsFewer == Drains => MaxConflicts < Attempts /\ MaxConflicts < RollbackAttempts
<1>1. \A n \in Nat \ {0} : n \div 2 < n
  OBVIOUS
<1> QED BY <1>1, BoxConstants DEF Drains

\* A thread that does nothing has nothing to go back to ...
LEMMA IdleRuns ==
  \A h, b, c, k, n : /\ Builds(NoLocals, "idle", h, b, c)
                     /\ Tries(NoLocals, "idle", h, n)
                     /\ Follows(NoLocals, "idle", h, b, c, k)
BY IdleLocals DEF Builds, Tries, Follows, Past, Working

\* ... so that only the holder of the lock, if any, is left to look at.
LEMMA IdleAfter ==
  ASSUME InstanceInv', NEW q \in Request, pc'[q] = "idle"
  PROVE  /\ Builds(loc'[q], pc'[q], heap', box', cfg')
         /\ Tries(loc'[q], pc'[q], heap', conflicts')
         /\ loc'[q].op = "refresh" => loc'[q].keep.edit <= lastEdit'
         /\ ~done' => Follows(loc'[q], pc'[q], heap', box', cfg', cache')
<1>1. loc'[q] = NoLocals
  BY DEF InstanceInv, ObjInv, Owns
<1> QED BY <1>1, IdleRuns, IdleLocals

\* A step that leaves the configurations alone and ends with nobody inside.
LEMMA QuietRuns ==
  ASSUME InstanceInv', RunInv, \A q \in Request : pc'[q] = "idle",
         heap' = heap, lastEdit' = lastEdit, conflicts' = conflicts,
         box' # NoBox => Runs(heap'[cfg']) /\ box'.sub = heap'[cfg'].sub,
         pc'[Main] = "startCommit" => Starts(heap'[cfg'])
  PROVE  /\ BuildInv' /\ TryInv' /\ EditBound'
         /\ \A t \in Request : ~done' => Follows(loc'[t], pc'[t], heap', box', cfg', cache')
<1>1. \A t \in Request : /\ Builds(loc'[t], pc'[t], heap', box', cfg')
                         /\ Tries(loc'[t], pc'[t], heap', conflicts')
                         /\ loc'[t].op = "refresh" => loc'[t].keep.edit <= lastEdit'
                         /\ ~done' => Follows(loc'[t], pc'[t], heap', box', cfg', cache')
  BY IdleAfter
<1> QED BY <1>1 DEF RunInv, BuildInv, TryInv, EditBound

\* Start takes the lock with nothing running.
LEMMA StartBeginRun ==
  ASSUME InstanceInv, InstanceInv', RunInv, StartBegin
  PROVE  RunInv'
<1>1. /\ \A q \in Request : pc[q] = "idle" /\ pc'[q] = "idle"
      /\ pc[Main] = "start" /\ pc'[Main] \in {"starting", "startFailed"} /\ box' = NoBox
  BY NobodyInside, BoxConstants
     DEF StartBegin, Goto, InstanceInv, BoxTypes, LockInv, Thread
<1>2. BuildInv' /\ TryInv' /\ EditBound' /\
      \A t \in Request : ~done' => Follows(loc'[t], pc'[t], heap', box', cfg', cache')
  BY <1>1, QuietRuns DEF StartBegin, bounds
<1>3. ServiceInv'
  BY <1>1 DEF ServiceInv
<1>4. FollowInv'
  BY <1>1, <1>2 DEF StartBegin, RunInv, FollowInv
<1> QED BY <1>2, <1>3, <1>4 DEF RunInv

\* A round of the start loop moves a node at most.
LEMMA StartAttemptRun ==
  ASSUME InstanceInv, InstanceInv', RunInv, StartAttempt
  PROVE  RunInv'
<1>1. /\ \A q \in Request : pc'[q] = "idle"
      /\ pc[Main] = "starting" /\ pc'[Main] \in {"starting", "startCommit", "startFailed"}
      /\ box = NoBox /\ box' = NoBox
  BY MainAlone, BoxConstants
     DEF StartAttempt, Goto, InstanceInv, BoxTypes, LockInv, LiveInv, Down, Starting, Open, Thread
<1>2. \A t \in Request : /\ Builds(loc'[t], pc'[t], heap', box', cfg')
                         /\ Tries(loc'[t], pc'[t], heap', conflicts')
                         /\ loc'[t].op = "refresh" => loc'[t].keep.edit <= lastEdit'
                         /\ ~done' => Follows(loc'[t], pc'[t], heap', box', cfg', cache')
  BY <1>1, IdleAfter
<1>3. \A o \in Obj : heap'[o].edit = heap[o].edit /\ heap'[o].sub = heap[o].sub
  BY DEF StartAttempt, InstanceInv, BoxTypes, Built, Reassigned
<1>4. conflicts' <= MaxConflicts
  BY BoxConstants DEF StartAttempt, InstanceInv, BoxTypes, RunInv, TryInv, Spend, Starts,
     Conflicts
<1>5. BuildInv'
  <2>1. pc'[Main] = "startCommit" => Starts(heap'[cfg'])
    BY <1>1, BoxConstants DEF StartAttempt, Goto, InstanceInv, BoxTypes, Thread
  <2> QED BY <1>1, <1>2, <2>1 DEF BuildInv
<1>6. TryInv' /\ EditBound'
  BY <1>2, <1>3, <1>4 DEF StartAttempt, RunInv, TryInv, EditBound
<1>7. ServiceInv'
  BY <1>1 DEF ServiceInv
<1>8. FollowInv'
  BY <1>1, <1>2, <1>3 DEF StartAttempt, InstanceInv, BoxTypes, RunInv, FollowInv, Starting,
     Open
<1> QED BY <1>5, <1>6, <1>7, <1>8 DEF RunInv

\* What becomes the current box starts.
LEMMA StartCommitRun ==
  ASSUME InstanceInv, InstanceInv', RunInv, StartCommit
  PROVE  RunInv'
<1>1. /\ \A q \in Request : pc[q] = "idle" /\ pc'[q] = "idle"
      /\ pc[Main] = "startCommit" /\ box = NoBox
      /\ \/ pc'[Main] = "startFailed" /\ box' = NoBox
         \/ pc'[Main] = "startRouter" /\ box' = heap[cfg] /\ box' # NoBox
  BY MainAlone, BoxConstants, NoBoxIsNotBuilt
     DEF StartCommit, Goto, InstanceInv, BoxTypes, LockInv, LiveInv, Apart, Starting, Open, Thread
<1>2. BuildInv' /\ TryInv' /\ EditBound' /\
      \A t \in Request : ~done' => Follows(loc'[t], pc'[t], heap', box', cfg', cache')
  BY <1>1, QuietRuns DEF StartCommit, bounds, RunInv, BuildInv, Runs, Starts, Hopeless
<1>3. ServiceInv'
  BY <1>1 DEF ServiceInv
<1>4. FollowInv'
  BY <1>1, <1>2 DEF StartCommit, RunInv, FollowInv, Starting, Open
<1> QED BY <1>2, <1>3, <1>4 DEF RunInv

\* The router follows the box.
LEMMA StartRouterRun ==
  ASSUME InstanceInv, InstanceInv', UnroutedInv, RunInv, StartRouter
  PROVE  RunInv'
<1>1. /\ \A q \in Request : pc[q] = "idle" /\ pc'[q] = "idle"
      /\ pc[Main] = "startRouter"
      /\ \/ pc'[Main] = "startFailed"
         \/ pc'[Main] = "startLast" /\ (box # NoBox => router' = Pools(box, refused'))
  BY MainAlone, BoxConstants
     DEF StartRouter, StartGeoIPRouter, Goto, InstanceInv, BoxTypes, LockInv, Starting, Open,
         Thread, UnroutedInv, Unrouted, Pools
<1>2. BuildInv' /\ TryInv' /\ EditBound' /\
      \A t \in Request : ~done' => Follows(loc'[t], pc'[t], heap', box', cfg', cache')
  BY <1>1, QuietRuns DEF StartRouter, bounds, RunInv, BuildInv
<1>3. ServiceInv'
  BY <1>1 DEF StartRouter, RunInv, ServiceInv
<1>4. FollowInv'
  BY <1>1, <1>2 DEF StartRouter, ends, RunInv, FollowInv, Starting, Open
<1> QED BY <1>2, <1>3, <1>4 DEF RunInv

\* Start ends with a box, its router and its cache file.
LEMMA StartLastRun ==
  ASSUME InstanceInv, InstanceInv', RunInv, StartLast
  PROVE  RunInv'
<1>1. /\ \A q \in Request : pc[q] = "idle" /\ pc'[q] = "idle"
      /\ pc[Main] = "startLast" /\ pc'[Main] \in {"startFailed", "wire"}
  BY MainAlone, BoxConstants
     DEF StartLast, Goto, InstanceInv, BoxTypes, LockInv, Starting, Open, Thread
<1>2. BuildInv' /\ TryInv' /\ EditBound' /\
      \A t \in Request : ~done' => Follows(loc'[t], pc'[t], heap', box', cfg', cache')
  BY <1>1, QuietRuns DEF StartLast, runtime, bounds, RunInv, BuildInv
<1>3. ServiceInv'
  BY <1>1 DEF StartLast, runtime, RunInv, ServiceInv
<1>4. FollowInv'
  BY <1>1, <1>2 DEF StartLast, runtime, ends, RunInv, FollowInv, Starting, Open
<1> QED BY <1>2, <1>3, <1>4 DEF RunInv

\* A failed start leaves nothing to keep.
LEMMA StartFailedRun ==
  ASSUME InstanceInv, InstanceInv', RunInv, StartFailed
  PROVE  RunInv'
<1>1. /\ \A q \in Request : pc'[q] = "idle"
      /\ pc'[Main] = "shutdown" /\ box' = NoBox
  BY MainAlone, BoxConstants
     DEF StartFailed, CloseComponents, Goto, InstanceInv, BoxTypes, Starting, Open, Thread
<1>2. BuildInv' /\ TryInv' /\ EditBound' /\
      \A t \in Request : ~done' => Follows(loc'[t], pc'[t], heap', box', cfg', cache')
  BY <1>1, QuietRuns DEF StartFailed, bounds
<1>3. ServiceInv' /\ FollowInv'
  BY <1>1, <1>2 DEF ServiceInv, FollowInv, Starting, Open
<1> QED BY <1>2, <1>3 DEF RunInv

\* Neither does Close.
LEMMA CloseRun ==
  ASSUME InstanceInv, InstanceInv', RunInv, Close
  PROVE  RunInv'
<1>1. /\ \A q \in Request : pc'[q] = "idle"
      /\ pc'[Main] = "end" /\ box' = NoBox
  BY NobodyInside, BoxConstants
     DEF Close, CloseComponents, Goto, InstanceInv, BoxTypes, Thread
<1>2. BuildInv' /\ TryInv' /\ EditBound' /\
      \A t \in Request : ~done' => Follows(loc'[t], pc'[t], heap', box', cfg', cache')
  BY <1>1, QuietRuns DEF Close, bounds
<1>3. ServiceInv' /\ FollowInv'
  BY <1>1, <1>2 DEF ServiceInv, FollowInv, Starting, Open
<1> QED BY <1>2, <1>3 DEF RunInv

\* What the main thread, the context and waiting requests do while one is inside.
LEMMA AsideRun ==
  ASSUME InstanceInv, RunInv,
         Wire \/ Shutdown \/ CancelParent \/ \E t \in Request : Call(t) \/ Refused(t)
  PROVE  RunInv'
<1>1. /\ heap' = heap /\ cfg' = cfg /\ box' = box /\ router' = router
      /\ refused' = refused /\ cache' = cache
      /\ lastEdit' = lastEdit /\ conflicts' = conflicts /\ loc' = loc
      /\ ~done' => ~done
      /\ \A q \in Request : pc'[q] = pc[q]
      /\ \/ pc'[Main] = pc[Main]
         \/ /\ pc[Main] \in {"wire", "running", "shutdown"}
            /\ \/ pc'[Main] = "running" /\ pc[Main] = "wire"
               \/ pc'[Main] = "closing"
  BY BoxConstants DEF Wire, Shutdown, CancelParent, Call, Refused, Arrives, runtime, bounds,
     ends, Goto, InstanceInv,
     BoxTypes, Thread
<1>2. BuildInv' /\ TryInv' /\ EditBound'
  BY <1>1 DEF RunInv, BuildInv, TryInv, EditBound
<1>3. ServiceInv'
  BY <1>1 DEF RunInv, ServiceInv, NoBadEdit
<1>4. FollowInv'
  BY <1>1 DEF RunInv, FollowInv, Starting, Open
<1> QED BY <1>2, <1>3, <1>4 DEF RunInv

\* The same for a step that leaves one request inside.
LEMMA HolderAfter ==
  ASSUME InstanceInv', NEW t \in Request, \A q \in Request \ {t} : pc'[q] = "idle",
         pc'[Main] \in Open,
         Builds(loc'[t], pc'[t], heap', box', cfg'),
         Tries(loc'[t], pc'[t], heap', conflicts'), conflicts' <= MaxConflicts,
         loc'[t].op = "refresh" => loc'[t].keep.edit <= lastEdit',
         \A o \in Obj : heap'[o].edit <= lastEdit',
         ~done' => Follows(loc'[t], pc'[t], heap', box', cfg', cache'),
         box' # NoBox => Runs(heap'[cfg']) /\ box'.sub = heap'[cfg'].sub
  PROVE  /\ BuildInv' /\ TryInv' /\ EditBound'
         /\ \A q \in Request : ~done' => Follows(loc'[q], pc'[q], heap', box', cfg', cache')
<1>1. \A q \in Request : /\ Builds(loc'[q], pc'[q], heap', box', cfg')
                         /\ Tries(loc'[q], pc'[q], heap', conflicts')
                         /\ loc'[q].op = "refresh" => loc'[q].keep.edit <= lastEdit'
                         /\ ~done' => Follows(loc'[q], pc'[q], heap', box', cfg', cache')
  BY IdleAfter
<1> QED BY <1>1 DEF BuildInv, Open, TryInv, EditBound

\* Who else is where when a request inside takes a step.
LEMMA InsideStep ==
  ASSUME InstanceInv, NEW t \in Request, pc[t] # "idle", NEW s, Goto(t, s)
  PROVE  /\ pc'[t] = s /\ \A q \in Request \ {t} : pc[q] = "idle" /\ pc'[q] = "idle"
         /\ pc'[Main] = pc[Main] /\ pc[Main] \in Open
         /\ loc[t] \in Locals /\ Owns(loc[t], pc[t], cfg)
BY Alone, BoxConstants DEF Goto, InstanceInv, BoxTypes, ObjInv, Thread

\* An operation that ends.
LEMMA UnlockRun ==
  ASSUME InstanceInv, InstanceInv', RunInv, NEW t \in Request, pc[t] # "idle", Unlock(t),
         heap' = heap, cfg' = cfg, box' = box, lastEdit' = lastEdit, conflicts' = conflicts,
         done' = done,
         ~done /\ box # NoBox => cache' = heap[cfg].sub,
         box # NoBox => router' = Pools(box, refused'),
         ~done /\ pc[Main] \in {"wire", "running"} /\ NoBadEdit => box # NoBox
  PROVE  RunInv'
<1>1. /\ \A q \in Request : pc'[q] = "idle"
      /\ pc'[Main] = pc[Main] /\ pc[Main] \in Open
  BY InsideStep DEF Unlock
<1>2. BuildInv' /\ TryInv' /\ EditBound' /\
      \A q \in Request : ~done' => Follows(loc'[q], pc'[q], heap', box', cfg', cache')
  BY <1>1, QuietRuns DEF RunInv, BuildInv
<1>3. ServiceInv'
  BY <1>1 DEF ServiceInv, NoBadEdit, Open
<1>4. FollowInv'
  BY <1>1, <1>2 DEF FollowInv, Starting, Open
<1> QED BY <1>2, <1>3, <1>4 DEF RunInv

\* An operation that goes on, other than to publish, without a current box.
LEMMA AsideStaysRun ==
  ASSUME InstanceInv, InstanceInv', NEW t \in Request, pc[t] # "idle",
         NEW s \in Aside, Goto(t, s), box' = NoBox,
         Builds(loc'[t], s, heap', box', cfg'),
         Tries(loc'[t], s, heap', conflicts'), conflicts' <= MaxConflicts,
         loc'[t].op = "refresh" => loc'[t].keep.edit <= lastEdit',
         \A o \in Obj : heap'[o].edit <= lastEdit',
         ~done' => Follows(loc'[t], s, heap', box', cfg', cache')
  PROVE  RunInv'
<1>1. /\ \A q \in Request \ {t} : pc'[q] = "idle"
      /\ pc'[Main] \in Open
  BY InsideStep
<1>2. pc'[t] = s
  BY InsideStep
<1>3. BuildInv' /\ TryInv' /\ EditBound' /\
      \A q \in Request : ~done' => Follows(loc'[q], pc'[q], heap', box', cfg', cache')
  BY <1>1, <1>2, HolderAfter
<1>4. ServiceInv'
  BY <1>1, <1>2 DEF ServiceInv, Open
<1>5. FollowInv'
  BY <1>1, <1>3 DEF FollowInv, Starting, Open
<1> QED BY <1>3, <1>4, <1>5 DEF RunInv

\* An edit changes neither node set nor ports of a configuration.
LEMMA EditRun ==
  ASSUME InstanceInv, InstanceInv', RunInv, NEW t \in Request, EditSettings(t) \/ EditNode(t)
  PROVE  RunInv'
<1>1. /\ \A q \in Request : pc[q] = "idle" /\ pc'[q] = "idle"
      /\ pc' = pc /\ box' = box /\ router' = router /\ refused' = refused
      /\ cfg' = cfg /\ cache' = cache
      /\ done' = done /\ conflicts' = conflicts /\ lastEdit' = lastEdit + 1
      /\ pc[Main] \notin Starting
  BY NobodyInside DEF EditSettings, EditNode, Arrives, InstanceInv, ends, accepted, bounds
<1>2. PICK o \in Obj \cup {NoObj} : heap' = [heap EXCEPT ![o].edit = lastEdit + 1]
  BY DEF EditSettings, EditNode, InstanceInv, BoxTypes
<1>3. \A x \in Obj : /\ heap'[x].sub = heap[x].sub /\ heap'[x].moved = heap[x].moved
                     /\ heap'[x].edit \in {heap[x].edit, lastEdit + 1} /\ heap[x].edit \in Nat
  BY <1>2 DEF InstanceInv, BoxTypes, Built
<1>4. \A q \in Request : /\ Builds(loc'[q], pc'[q], heap', box', cfg')
                         /\ Tries(loc'[q], pc'[q], heap', conflicts')
                         /\ loc'[q].op = "refresh" => loc'[q].keep.edit <= lastEdit'
                         /\ ~done' => Follows(loc'[q], pc'[q], heap', box', cfg', cache')
  BY <1>1, IdleAfter
<1>5. BuildInv'
  BY <1>1, <1>3, <1>4 DEF InstanceInv, BoxTypes, RunInv, BuildInv, Runs, PortTaken,
     Starting, Open
<1>6. TryInv'
  BY <1>1, <1>4 DEF RunInv, TryInv
<1>7. EditBound'
  <2>1. \A x \in Obj : heap[x].edit <= lastEdit /\ lastEdit \in Nat
    BY DEF RunInv, EditBound, InstanceInv, BoxTypes
  <2>2. \A x \in Obj : heap'[x].edit <= lastEdit'
    BY <1>1, <1>3, <2>1
  <2> QED BY <1>4, <2>2 DEF EditBound
<1>8. ServiceInv'
  <2>1. NoBadEdit' => NoBadEdit
    BY <1>1, BoxConstants DEF NoBadEdit, InstanceInv, BoxTypes
  <2> QED BY <1>1, <2>1 DEF RunInv, ServiceInv
<1>9. FollowInv'
  BY <1>1, <1>3, <1>4 DEF InstanceInv, BoxTypes, RunInv, FollowInv
<1> QED BY <1>5, <1>6, <1>7, <1>8, <1>9 DEF RunInv

\* The old configuration ran; without a box there was none to lose.
LEMMA TakeRun ==
  ASSUME InstanceInv, InstanceInv', RunInv, NEW t \in Request, Take(t)
  PROVE  RunInv'
<1>a. /\ pc[t] = "take" /\ heap' = heap /\ cfg' = cfg /\ done' = done /\ cache' = cache
      /\ router' = router /\ refused' = refused
      /\ lastEdit' = lastEdit /\ conflicts' = conflicts
  BY DEF Take, ends, accepted, bounds
<1>1. CASE Unlock(t) /\ box' = box /\ (done \/ box = NoBox)
  <2>0. \A q \in Request : pc[q] \notin Aside /\ pc[q] # "publish"
    BY <1>1, <1>a, InsideStep DEF Unlock, Aside
  <2>m. pc[Main] \in Open
    BY <1>1, <1>a, InsideStep DEF Unlock
  <2>1. ~done /\ pc[Main] \in {"wire", "running"} /\ NoBadEdit => box # NoBox
    BY <2>0 DEF RunInv, ServiceInv
  <2>2. box # NoBox => router' = Pools(box, refused')
    BY <1>a, <2>0, <2>m DEF RunInv, FollowInv, Starting, Open
  <2> QED BY <1>1, <1>a, <2>1, <2>2, UnlockRun
<1>2. CASE /\ Local(t, [loc[t] EXCEPT !.old = cfg, !.was = box, !.try = 0])
           /\ box # NoBox /\ box' = NoBox /\ Goto(t, "closeOld")
  <2>1. loc[t] \in Locals /\ Owns(loc[t], pc[t], cfg) /\ t \in Thread
    BY <1>2, <1>a, InsideStep DEF Thread
  <2>2. PICK l \in Locals, o \in Obj, w \in Built \cup {NoBox} : l = loc[t] /\ o = cfg /\ w = box
    BY <2>1 DEF InstanceInv, BoxTypes
  <2>3. PICK r : r = [l EXCEPT !.old = o, !.was = w, !.try = 0]
    OBVIOUS
  <2>4. /\ r.op = loc[t].op /\ r.old = cfg /\ r.new = loc[t].new /\ r.try = 0
        /\ r.keep = loc[t].keep /\ r.undo = loc[t].undo
    <3>1. /\ r.op = l.op /\ r.old = o /\ r.new = l.new /\ r.try = 0
          /\ r.keep = l.keep /\ r.undo = l.undo
      BY <2>3 DEF Locals
    <3> QED BY <3>1, <2>2
  <2>5. loc'[t] = r
    BY <1>2, <2>1, <2>2, <2>3 DEF Local, InstanceInv, BoxTypes
  <2>6. Builds(r, "closeOld", heap', box', cfg')
    BY <1>a, <1>2, <2>4 DEF RunInv, BuildInv, Builds
  <2>7. Tries(r, "closeOld", heap', conflicts')
    BY <2>4 DEF Tries
  <2>8. ~done' => Follows(r, "closeOld", heap', box', cfg', cache')
    BY <1>a, <1>2, <2>4 DEF RunInv, FollowInv, Follows
  <2>9. /\ r.op = "refresh" => r.keep.edit <= lastEdit'
        /\ \A x \in Obj : heap'[x].edit <= lastEdit'
    BY <1>a, <2>4 DEF RunInv, EditBound
  <2>c. conflicts' <= MaxConflicts /\ "closeOld" \in Aside /\ pc[t] # "idle"
    BY <1>a DEF RunInv, TryInv, Aside
  <2> QED BY <1>2, <2>5, <2>6, <2>7, <2>8, <2>9, <2>c, AsideStaysRun
<1> QED BY <1>1, <1>2 DEF Take, InstanceInv, LockInv

\* No try was made yet.
LEMMA CloseOldRun ==
  ASSUME InstanceInv, InstanceInv', RunInv, NEW t \in Request, CloseOld(t)
  PROVE  RunInv'
<1>a. /\ pc[t] = "closeOld" /\ heap' = heap /\ cfg' = cfg /\ done' = done /\ cache' = cache
      /\ lastEdit' = lastEdit /\ conflicts' = conflicts
      /\ box' = box /\ box = NoBox
  BY DEF CloseOld, ends, accepted, bounds, InstanceInv, LiveInv, Apart, Thread
<1>1. CASE Unlock(t) /\ done
  BY <1>1, <1>a, UnlockRun
<1>2. CASE Goto(t, "attempt") /\ loc' = loc
  <2>1. Builds(loc'[t], "attempt", heap', box', cfg')
    BY <1>a, <1>2 DEF RunInv, BuildInv, Builds, Past, Working
  <2>2. Tries(loc'[t], "attempt", heap', conflicts')
    BY <1>a, <1>2 DEF RunInv, TryInv, Tries, InstanceInv, BoxTypes
  <2>3. ~done' => Follows(loc'[t], "attempt", heap', box', cfg', cache')
    BY <1>a, <1>2 DEF RunInv, FollowInv, Follows, Past, Working
  <2>4. /\ loc'[t].op = "refresh" => loc'[t].keep.edit <= lastEdit'
        /\ \A x \in Obj : heap'[x].edit <= lastEdit'
    BY <1>a, <1>2 DEF RunInv, EditBound
  <2>5. conflicts' <= MaxConflicts /\ "attempt" \in Aside /\ pc[t] # "idle" /\ box' = NoBox
    BY <1>a DEF RunInv, TryInv, Aside
  <2> QED BY <1>2, <2>1, <2>2, <2>3, <2>4, <2>5, AsideStaysRun
<1> QED BY <1>1, <1>2 DEF CloseOld

\* The new configuration is the current one, and starts.
LEMMA CommitRun ==
  ASSUME InstanceInv, InstanceInv', RunInv, NEW t \in Request, Commit(t)
  PROVE  RunInv'
<1>a. /\ pc[t] = "commit" /\ heap' = heap /\ done' = done /\ cache' = cache
      /\ lastEdit' = lastEdit /\ conflicts' = conflicts /\ box = NoBox
  BY DEF Commit, ends, accepted, bounds, InstanceInv, LiveInv, Apart, Thread
<1>1. CASE Unlock(t) /\ done /\ box' = box /\ cfg' = cfg
  BY <1>1, <1>a, UnlockRun
<1>2. CASE Goto(t, "publish") /\ loc' = loc /\ box' = heap[loc[t].new] /\ cfg' = loc[t].new
  <2>0. /\ pc'[t] = "publish" /\ \A q \in Request \ {t} : pc'[q] = "idle"
        /\ pc'[Main] \in Open
        /\ Owns(loc[t], pc[t], cfg)
    BY <1>2, <1>a, InsideStep
  <2>1. Builds(loc'[t], pc'[t], heap', box', cfg')
    BY <1>a, <1>2, <2>0 DEF RunInv, BuildInv, Builds, Past, Working
  <2>2. Tries(loc'[t], pc'[t], heap', conflicts')
    BY <2>0 DEF Tries
  <2>3. ~done' => Follows(loc'[t], pc'[t], heap', box', cfg', cache')
    BY <1>a, <1>2, <2>0 DEF RunInv, FollowInv, Follows, Past, Working
  <2>4. /\ loc'[t].op = "refresh" => loc'[t].keep.edit <= lastEdit'
        /\ \A x \in Obj : heap'[x].edit <= lastEdit'
    BY <1>a, <1>2 DEF RunInv, EditBound
  <2>5. conflicts' <= MaxConflicts
    BY <1>a DEF RunInv, TryInv
  <2>6. Runs(heap'[cfg']) /\ box'.sub = heap'[cfg'].sub
    BY <1>a, <1>2 DEF RunInv, BuildInv, Builds, Runs, Starts, Hopeless
  <2>7. box' # NoBox
    BY <1>a, <1>2, <2>0, NoBoxIsNotBuilt DEF Owns, InstanceInv, BoxTypes
  <2>8. BuildInv' /\ TryInv' /\ EditBound' /\
        \A q \in Request : ~done' => Follows(loc'[q], pc'[q], heap', box', cfg', cache')
    BY <2>0, <2>1, <2>2, <2>3, <2>4, <2>5, <2>6, HolderAfter
  <2>9. ServiceInv' /\ FollowInv'
    BY <2>0, <2>7, <2>8 DEF ServiceInv, FollowInv, Starting, Open
  <2> QED BY <2>8, <2>9 DEF RunInv
<1> QED BY <1>1, <1>2 DEF Commit

\* The router follows it.
LEMMA PublishRun ==
  ASSUME InstanceInv, InstanceInv', RunInv, NEW t \in Request, Publish(t)
  PROVE  RunInv'
<1>a. /\ pc[t] = "publish" /\ heap' = heap /\ cfg' = cfg /\ done' = done /\ cache' = cache
      /\ lastEdit' = lastEdit /\ conflicts' = conflicts /\ box' = box
      /\ loc' = loc /\ Goto(t, "reloaded") /\ router' = Pools(box, refused')
  BY DEF Publish, StartGeoIPRouter, Pools, ends, accepted, bounds
<1>0. /\ pc'[t] = "reloaded" /\ \A q \in Request \ {t} : pc[q] = "idle" /\ pc'[q] = "idle"
      /\ pc'[Main] = pc[Main] /\ pc'[Main] \in Open
  BY <1>a, InsideStep
<1>1. Builds(loc'[t], pc'[t], heap', box', cfg')
  BY <1>a, <1>0 DEF RunInv, BuildInv, Builds, Past, Working
<1>2. Tries(loc'[t], pc'[t], heap', conflicts')
  BY <1>0 DEF Tries
<1>3. ~done' => Follows(loc'[t], pc'[t], heap', box', cfg', cache')
  BY <1>a, <1>0 DEF RunInv, FollowInv, Follows, Past, Working
<1>4. /\ loc'[t].op = "refresh" => loc'[t].keep.edit <= lastEdit'
      /\ \A x \in Obj : heap'[x].edit <= lastEdit'
  BY <1>a DEF RunInv, EditBound
<1>5. conflicts' <= MaxConflicts
  BY <1>a DEF RunInv, TryInv
<1>6. box' # NoBox => Runs(heap'[cfg']) /\ box'.sub = heap'[cfg'].sub
  BY <1>a DEF RunInv, BuildInv
<1>7. BuildInv' /\ TryInv' /\ EditBound' /\
      \A q \in Request : ~done' => Follows(loc'[q], pc'[q], heap', box', cfg', cache')
  BY <1>0, <1>1, <1>2, <1>3, <1>4, <1>5, <1>6, HolderAfter
<1>8. ServiceInv'
  BY <1>a, <1>0 DEF RunInv, ServiceInv, NoBadEdit, Aside
<1>9. FollowInv'
  BY <1>a, <1>0, <1>7 DEF FollowInv, Starting, Open
<1> QED BY <1>7, <1>8, <1>9 DEF RunInv

\* The old configuration is the current one again, with its router.
LEMMA RollbackCommitRun ==
  ASSUME InstanceInv, InstanceInv', UnroutedInv, RunInv, NEW t \in Request, RollbackCommit(t)
  PROVE  RunInv'
<1>a. /\ pc[t] = "rollbackCommit" /\ heap' = heap /\ done' = done /\ cache' = cache
      /\ lastEdit' = lastEdit /\ conflicts' = conflicts /\ box = NoBox
  BY DEF RollbackCommit, ends, accepted, bounds, InstanceInv, LiveInv, Apart, Thread
<1>b. router = NoBox
  BY <1>a DEF UnroutedInv, Unrouted, Thread
<1>1. CASE Unlock(t) /\ done /\ box' = box /\ cfg' = cfg
  BY <1>1, <1>a, UnlockRun
<1>2. CASE /\ Goto(t, "failed") /\ loc' = loc /\ box' = heap[loc[t].old] /\ cfg' = loc[t].old
           /\ router' = Pools(heap[loc[t].old], refused')
  <2>0. /\ pc'[t] = "failed" /\ \A q \in Request \ {t} : pc'[q] = "idle"
        /\ pc'[Main] \in Open
        /\ Owns(loc[t], pc[t], cfg)
    BY <1>2, <1>a, InsideStep
  <2>1. Builds(loc'[t], pc'[t], heap', box', cfg')
    BY <1>a, <1>2, <2>0 DEF RunInv, BuildInv, Builds, Past, Working
  <2>2. Tries(loc'[t], pc'[t], heap', conflicts')
    BY <2>0 DEF Tries
  <2>3. ~done' => Follows(loc'[t], pc'[t], heap', box', cfg', cache')
    BY <1>a, <1>2, <2>0 DEF RunInv, FollowInv, Follows, Past, Working
  <2>4. /\ loc'[t].op = "refresh" => loc'[t].keep.edit <= lastEdit'
        /\ \A x \in Obj : heap'[x].edit <= lastEdit'
    BY <1>a, <1>2 DEF RunInv, EditBound
  <2>5. conflicts' <= MaxConflicts
    BY <1>a DEF RunInv, TryInv
  <2>6. Runs(heap'[cfg']) /\ box'.sub = heap'[cfg'].sub
    BY <1>a, <1>2 DEF RunInv, BuildInv, Builds, Past, Working
  <2>7. box' # NoBox
    BY <1>a, <1>2, <2>0, NoBoxIsNotBuilt DEF Owns, InstanceInv, BoxTypes
  <2>8. BuildInv' /\ TryInv' /\ EditBound' /\
        \A q \in Request : ~done' => Follows(loc'[q], pc'[q], heap', box', cfg', cache')
    BY <2>0, <2>1, <2>2, <2>3, <2>4, <2>5, <2>6, HolderAfter
  <2>9. ServiceInv' /\ FollowInv'
    BY <1>2, <2>0, <2>7, <2>8 DEF ServiceInv, FollowInv, Starting, Open
  <2> QED BY <2>8, <2>9 DEF RunInv
<1>3. StartGeoIPRouter(heap[loc[t].old]) => router' = Pools(heap[loc[t].old], refused')
  BY <1>b DEF StartGeoIPRouter, Pools
<1> QED BY <1>1, <1>2, <1>3 DEF RollbackCommit

\* A failure ends with the old configuration, which the cache file belongs to.
LEMMA FailedRun ==
  ASSUME InstanceInv, InstanceInv', RunInv, NEW t \in Request, Failed(t)
  PROVE  RunInv'
<1>a. /\ pc[t] = "failed" /\ heap' = heap /\ cfg' = cfg /\ done' = done /\ cache' = cache
      /\ router' = router /\ refused' = refused /\ lastEdit' = lastEdit
      /\ conflicts' = conflicts /\ box' = box /\ Unlock(t)
  BY DEF Failed, ends, accepted, bounds, runtime
<1>0. /\ \A q \in Request : pc[q] \notin Aside /\ pc[q] # "publish"
      /\ pc[Main] \in Open
  BY <1>a, InsideStep DEF Unlock, Aside
<1>1. ~done /\ box # NoBox => cache' = heap[cfg].sub
  <2>1. ~loc[t].undo /\ (box # NoBox => cfg = loc[t].old)
    BY <1>a DEF RunInv, BuildInv, Builds
  <2>2. ~done => cache = heap[loc[t].old].sub
    BY <1>a, <2>1 DEF RunInv, FollowInv, Follows, Past, Working
  <2> QED BY <1>a, <2>1, <2>2
<1>2. box # NoBox => router' = Pools(box, refused')
  BY <1>a, <1>0 DEF RunInv, FollowInv, Starting, Open
<1>3. ~done /\ pc[Main] \in {"wire", "running"} /\ NoBadEdit => box # NoBox
  BY <1>0 DEF RunInv, ServiceInv
<1> QED BY <1>a, <1>1, <1>2, <1>3, UnlockRun

\* An operation that begins has two objects that agree with the current configuration.
LEMMA BeginRun ==
  ASSUME InstanceInv, InstanceInv', RunInv, NEW t \in Request, NEW o \in Obj, NEW c \in Built,
         pc[t] = "idle", Free, Goto(t, "take"), o # cfg, heap' = [heap EXCEPT ![o] = c],
         c.edit = heap[cfg].edit, loc'[t].new = o, ~loc'[t].undo,
         loc'[t].op = "reload" => c.sub = heap[cfg].sub,
         loc'[t].op = "refresh" => loc'[t].keep = heap[cfg] /\ box # NoBox,
         cfg' = cfg, box' = box, router' = router, refused' = refused, done' = done,
         cache' = cache,
         lastEdit' = lastEdit, conflicts' = conflicts
  PROVE  RunInv'
<1>0. /\ \A q \in Request : pc[q] = "idle"
      /\ pc[Main] \in {"start"} \cup Open
      /\ pc'[t] = "take" /\ (\A q \in Request \ {t} : pc'[q] = "idle") /\ pc'[Main] = pc[Main]
  BY NobodyInside, BoxConstants DEF Goto, InstanceInv, BoxTypes, LockInv, Stages, Starting,
     Open, Thread
<1>1. heap'[o] = c /\ \A x \in Obj \ {o} : heap'[x] = heap[x]
  BY DEF InstanceInv, BoxTypes
<1>2. heap'[cfg] = heap[cfg] /\ cfg \in Obj
  BY <1>1 DEF InstanceInv, BoxTypes
<1>3. Builds(loc'[t], pc'[t], heap', box', cfg')
  BY <1>0, <1>1, <1>2 DEF RunInv, BuildInv, Builds, Past
<1>4. Tries(loc'[t], pc'[t], heap', conflicts')
  BY <1>0 DEF Tries
<1>5. ~done' => Follows(loc'[t], pc'[t], heap', box', cfg', cache')
  BY <1>0, <1>1, <1>2 DEF RunInv, FollowInv, Follows, Past
<1>6. /\ loc'[t].op = "refresh" => loc'[t].keep.edit <= lastEdit'
      /\ \A x \in Obj : heap'[x].edit <= lastEdit'
  BY <1>1, <1>2 DEF RunInv, EditBound
<1>7. \A q \in Request : /\ Builds(loc'[q], pc'[q], heap', box', cfg')
                         /\ Tries(loc'[q], pc'[q], heap', conflicts')
                         /\ loc'[q].op = "refresh" => loc'[q].keep.edit <= lastEdit'
                         /\ ~done' => Follows(loc'[q], pc'[q], heap', box', cfg', cache')
  BY <1>0, <1>3, <1>4, <1>5, <1>6, IdleAfter
<1>8. BuildInv' /\ TryInv' /\ EditBound'
  BY <1>0, <1>2, <1>6, <1>7 DEF RunInv, BuildInv, TryInv, EditBound, Open
<1>9. ServiceInv'
  BY <1>0 DEF RunInv, ServiceInv, NoBadEdit, Aside, Open
<1>10. FollowInv'
  BY <1>0, <1>2, <1>7 DEF RunInv, FollowInv, Starting, Open
<1> QED BY <1>8, <1>9, <1>10 DEF RunInv

\* A reload copies the current configuration.
LEMMA BeginReloadRun ==
  ASSUME InstanceInv, InstanceInv', RunInv, NEW t \in Request, BeginReload(t)
  PROVE  RunInv'
<1>a. /\ pc[t] = "idle" /\ Free /\ Goto(t, "take") /\ cfg' = cfg /\ box' = box
      /\ router' = router /\ refused' = refused /\ done' = done /\ cache' = cache
      /\ lastEdit' = lastEdit
      /\ conflicts' = conflicts /\ heap[cfg] \in Built
  BY NobodyInside DEF BeginReload, Arrives, ends, InstanceInv, BoxTypes
<1>o. PICK o : o = Fresh
  OBVIOUS
<1>b. o \in Obj /\ o # cfg
  BY <1>a, <1>o, FreshIsFree, NobodyInside DEF InstanceInv
<1>c. PICK r : r = [NoLocals EXCEPT !.op = "reload", !.new = o]
  OBVIOUS
<1>d. r.op = "reload" /\ r.new = o /\ ~r.undo
  BY <1>b, <1>c, ReloadLocals, Zenon
<1>e. heap' = [heap EXCEPT ![o] = heap[cfg]] /\ loc'[t] = r
  BY <1>c, <1>o DEF BeginReload, Local, InstanceInv, BoxTypes, Thread
<1> QED BY <1>a, <1>b, <1>d, <1>e, BeginRun

\* A refresh changes its node set, and keeps the old contents.
LEMMA BeginRefreshRun ==
  ASSUME InstanceInv, InstanceInv', RunInv, NEW t \in Request, NEW s \in Sub,
         BeginRefresh(t, s)
  PROVE  RunInv'
<1>a. /\ pc[t] = "idle" /\ Free /\ Goto(t, "take") /\ cfg' = cfg /\ box' = box
      /\ router' = router /\ refused' = refused /\ done' = done /\ cache' = cache
      /\ lastEdit' = lastEdit
      /\ conflicts' = conflicts /\ heap[cfg] \in Built /\ box # NoBox
  BY NobodyInside DEF BeginRefresh, Arrives, ends, InstanceInv, BoxTypes
<1>o. PICK o : o = Fresh
  OBVIOUS
<1>b. o \in Obj /\ o # cfg
  BY <1>a, <1>o, FreshIsFree, NobodyInside DEF InstanceInv
<1>k. PICK k \in Built : k = heap[cfg]
  BY <1>a
<1>c. PICK r : r = [NoLocals EXCEPT !.op = "refresh", !.new = o, !.keep = k]
  OBVIOUS
<1>d. r.op = "refresh" /\ r.new = o /\ ~r.undo /\ r.keep = heap[cfg]
  <2>1. r.op = "refresh" /\ r.new = o /\ ~r.undo /\ r.keep = k
    BY <1>b, <1>c DEF NoLocals
  <2> QED BY <2>1, <1>k
<1>e. PICK c : c = Refreshed(k, s)
  OBVIOUS
<1>f. c \in Built /\ c.edit = heap[cfg].edit
  BY <1>e, <1>k DEF Refreshed, Contents, Built
<1>g. heap' = [heap EXCEPT ![o] = c] /\ loc'[t] = r
  BY <1>c, <1>e, <1>k, <1>o DEF BeginRefresh, Local, InstanceInv, BoxTypes, Thread
<1> QED BY <1>a, <1>b, <1>d, <1>f, <1>g, BeginRun

\* A try that fails counts, and a configuration moved to another port starts as before.
LEMMA Moved ==
  ASSUME NEW c \in Built, NEW d, d = Reassigned(c)
  PROVE  /\ d.sub = c.sub /\ d.edit = c.edit
         /\ (Starts(c) => Starts(d)) /\ (Hopeless(c) <=> Hopeless(d))
BY DEF Built, Reassigned, Starts, Hopeless, PortTaken

\* The numbers of a try: a conflict of a configuration that starts is a draining port.
LEMMA TryCounts ==
  ASSUME InstanceInv, NEW c, Conflicts(c), Spend(c), ~Hopeless(c), ~PortTaken(c),
         NEW n \in Nat, n + conflicts <= MaxConflicts
  PROVE  n + 1 + conflicts' <= MaxConflicts /\ n + 1 <= MaxConflicts
<1>1. conflicts \in Nat /\ conflicts > 0 /\ conflicts' = conflicts - 1 /\ MaxConflicts \in Nat
  BY BoxConstants DEF InstanceInv, BoxTypes, Conflicts, Spend, Starts
<1> QED BY <1>1

\* Conflicts are only used up.
LEMMA SpendBound ==
  ASSUME InstanceInv, RunInv, NEW c, Conflicts(c), Spend(c)
  PROVE  conflicts' <= MaxConflicts
BY BoxConstants DEF InstanceInv, BoxTypes, RunInv, TryInv, Conflicts, Spend, Starts

\* An undo never runs out of attempts; a reload falls back to what ran.
LEMMA AttemptRun ==
  ASSUME InstanceInv, InstanceInv', RunInv, Drains, NEW t \in Request, Attempt(t)
  PROVE  RunInv'
<1>a. /\ pc[t] = "attempt" /\ cfg' = cfg /\ done' = done /\ cache' = cache
      /\ lastEdit' = lastEdit /\ box' = box /\ box = NoBox /\ t \in Thread
  BY DEF Attempt, ends, accepted, bounds, InstanceInv, LiveInv, Down, Thread
<1>l. PICK l \in Locals : l = loc[t]
  BY <1>a DEF InstanceInv, BoxTypes
<1>o. l.new \in Obj /\ l.old \in Obj /\ l.old # l.new
  BY <1>a, <1>l DEF InstanceInv, ObjInv, Owns
<1>b. /\ Builds(l, "attempt", heap, box, cfg) /\ Tries(l, "attempt", heap, conflicts)
      /\ ~done => Follows(l, "attempt", heap, box, cfg, cache)
      /\ l.op = "refresh" => l.keep.edit <= lastEdit
      /\ \A x \in Obj : heap[x].edit <= lastEdit
      /\ conflicts <= MaxConflicts
  BY <1>a, <1>l DEF RunInv, BuildInv, TryInv, FollowInv, EditBound
<1>c. PICK c \in Built : c = heap[l.new]
  BY <1>o DEF InstanceInv, BoxTypes
\* What every branch that goes on does: the locals change in try only, and the new
\* configuration is at most moved.
<1>g. ASSUME NEW s \in {"attempt", "commit", "rollback"}, NEW n \in Nat, Goto(t, s),
             loc'[t] = [l EXCEPT !.try = n],
             heap' = heap \/ heap' = [heap EXCEPT ![l.new] = Reassigned(c)],
             conflicts' <= MaxConflicts, conflicts' \in Nat,
             s = "commit" => Starts(c) /\ heap' = heap,
             s = "rollback" => ~l.undo /\ n = 0,
             s = "attempt" /\ (l.undo \/ c.sub \notin ForeignSubs) =>
               Hopeless(c) \/ n + conflicts' <= MaxConflicts
      PROVE  RunInv'
  <2>1. PICK r : r = [l EXCEPT !.try = n]
    OBVIOUS
  <2>2. /\ r.op = l.op /\ r.old = l.old /\ r.new = l.new /\ r.keep = l.keep
        /\ r.undo = l.undo /\ r.try = n /\ loc'[t] = r
    BY <2>1, <1>g, TryUpdate
  <2>3. PICK d : d = Reassigned(c)
    OBVIOUS
  <2>4. /\ heap'[l.new] \in {c, d} /\ \A x \in Obj \ {l.new} : heap'[x] = heap[x]
        /\ heap'[l.old] = heap[l.old]
    BY <1>g, <1>c, <1>o, <2>3 DEF InstanceInv, BoxTypes
  <2>5. PICK e : e = heap'[l.new]
    OBVIOUS
  <2>6. /\ e.sub = c.sub /\ e.edit = c.edit
        /\ (Starts(c) => Starts(e)) /\ (Hopeless(c) <=> Hopeless(e))
    BY <2>3, <2>4, <2>5, Moved
  <2>7. Builds(r, s, heap', box', cfg')
    BY <1>a, <1>b, <1>c, <1>g, <2>2, <2>4, <2>5, <2>6 DEF Builds, Past, Working
  <2>8. Tries(r, s, heap', conflicts')
    BY <1>g, <1>c, <2>2, <2>4, <2>5, <2>6 DEF Tries
  <2>9. ~done' => Follows(r, s, heap', box', cfg', cache')
    BY <1>a, <1>b, <1>c, <1>g, <2>2, <2>4, <2>5, <2>6 DEF Follows, Past, Working
  <2>10. /\ r.op = "refresh" => r.keep.edit <= lastEdit'
         /\ \A x \in Obj : heap'[x].edit <= lastEdit'
    BY <1>a, <1>b, <1>c, <2>2, <2>4, <2>5, <2>6
  <2>11. s \in Aside /\ pc[t] # "idle" /\ box' = NoBox
    BY <1>a, <1>g DEF Aside
  <2> QED BY <1>g, <2>2, <2>7, <2>8, <2>9, <2>10, <2>11, AsideStaysRun
<1>n. l.try \in Nat /\ conflicts \in Nat /\ conflicts' \in Nat /\ l = [l EXCEPT !.try = l.try]
  BY DEF Locals, InstanceInv, BoxTypes
<1>1. CASE Unlock(t) /\ done /\ heap' = heap /\ conflicts' = conflicts
  BY <1>1, <1>a, UnlockRun
<1>2. CASE /\ Hopeless(c) /\ Local(t, [l EXCEPT !.try = 0]) /\ Goto(t, "rollback")
           /\ heap' = heap /\ conflicts' = conflicts
  <2>1. ~l.undo
    BY <1>2, <1>b, <1>c DEF Builds, Starts
  <2>2. loc'[t] = [l EXCEPT !.try = 0]
    BY <1>2, <1>a DEF Local, InstanceInv, BoxTypes
  <2> QED BY <1>2, <1>b, <1>n, <2>1, <2>2, <1>g
<1>3. CASE Starts(c) /\ Goto(t, "commit") /\ heap' = heap /\ loc' = loc /\ conflicts' = conflicts
  <2>1. loc'[t] = [l EXCEPT !.try = l.try]
    BY <1>3, <1>l, <1>n
  <2> QED BY <1>3, <1>b, <1>n, <2>1, <1>g
<1>4. ASSUME Conflicts(c), Spend(c),
             heap' = heap \/ heap' = [heap EXCEPT ![l.new] = Reassigned(c)],
             Local(t, [l EXCEPT !.try = IF l.try + 1 = Attempts THEN 0 ELSE l.try + 1]),
             Goto(t, IF l.try + 1 = Attempts THEN "rollback" ELSE "attempt")
      PROVE  RunInv'
  <2>1. conflicts' <= MaxConflicts
    BY <1>4, SpendBound
  <2>2. l.undo \/ c.sub \notin ForeignSubs =>
          Hopeless(c) \/ (l.try + 1 + conflicts' <= MaxConflicts /\ l.try + 1 <= MaxConflicts)
    <3>1. l.undo => Starts(c)
      BY <1>b, <1>c DEF Builds
    <3>2. l.undo \/ c.sub \notin ForeignSubs => ~PortTaken(c)
      BY <3>1 DEF Starts, PortTaken
    <3>3. l.undo \/ c.sub \notin ForeignSubs =>
            Hopeless(c) \/ l.try + conflicts <= MaxConflicts
      BY <1>b, <1>c DEF Tries
    <3> QED BY <1>4, <1>n, <3>2, <3>3, TryCounts
  <2>3. CASE l.try + 1 = Attempts
    <3>1. ~l.undo
      <4>1. l.undo => Starts(c) /\ ~Hopeless(c)
        BY <1>b, <1>c DEF Builds, Starts
      <4>2. MaxConflicts < Attempts /\ MaxConflicts \in Nat /\ Attempts \in Nat
        BY HalfIsFewer, BoxConstants
      <4> QED BY <2>2, <2>3, <4>1, <4>2, <1>n
    <3>2. loc'[t] = [l EXCEPT !.try = 0]
      BY <1>4, <2>3, <1>a DEF Local, InstanceInv, BoxTypes
    <3>3. Goto(t, "rollback")
      BY <1>4, <2>3
    <3> QED BY <1>4, <1>n, <2>1, <3>1, <3>2, <3>3, <1>g
  <2>4. CASE l.try + 1 # Attempts
    <3>1. loc'[t] = [l EXCEPT !.try = l.try + 1] /\ l.try + 1 \in Nat
      BY <1>4, <1>n, <2>4, <1>a DEF Local, InstanceInv, BoxTypes
    <3>2. Goto(t, "attempt")
      BY <1>4, <2>4
    <3> QED BY <1>4, <1>n, <2>1, <2>2, <3>1, <3>2, <1>g
  <2> QED BY <2>3, <2>4
<1> QED BY <1>1, <1>2, <1>3, <1>4, <1>l, <1>c DEF Attempt

\* A rollback never runs out of attempts, and fails for a bad edit only.
LEMMA RollbackRun ==
  ASSUME InstanceInv, InstanceInv', RunInv, Drains, NEW t \in Request, Rollback(t)
  PROVE  RunInv'
<1>a. /\ pc[t] = "rollback" /\ cfg' = cfg /\ done' = done /\ cache' = cache /\ heap' = heap
      /\ lastEdit' = lastEdit /\ box' = box /\ box = NoBox /\ router' = router
      /\ refused' = refused /\ t \in Thread
  BY DEF Rollback, ends, accepted, bounds, InstanceInv, LiveInv, Down, Thread
<1>l. PICK l \in Locals : l = loc[t]
  BY <1>a DEF InstanceInv, BoxTypes
<1>o. l.new \in Obj /\ l.old \in Obj /\ l.old # l.new
  BY <1>a, <1>l DEF InstanceInv, ObjInv, Owns
<1>b. /\ Builds(l, "rollback", heap, box, cfg) /\ Tries(l, "rollback", heap, conflicts)
      /\ ~done => Follows(l, "rollback", heap, box, cfg, cache)
      /\ l.op = "refresh" => l.keep.edit <= lastEdit
      /\ \A x \in Obj : heap[x].edit <= lastEdit
      /\ conflicts <= MaxConflicts
  BY <1>a, <1>l DEF RunInv, BuildInv, TryInv, FollowInv, EditBound
<1>c. PICK c \in Built : c = heap[l.old]
  BY <1>o DEF InstanceInv, BoxTypes
<1>r. Runs(c) /\ ~l.undo
  BY <1>b, <1>c DEF Builds, Past, Working
<1>n. l.try \in Nat /\ conflicts \in Nat /\ conflicts' \in Nat /\ l = [l EXCEPT !.try = l.try]
  BY DEF Locals, InstanceInv, BoxTypes
\* Only a bad edit makes the old configuration hopeless.
<1>h. Hopeless(c) => ~NoBadEdit
  <2>1. Hopeless(c) => c.edit \in BadEdits /\ c.edit \in Nat
    BY <1>r DEF Hopeless, Runs, Built
  <2>2. c.edit <= lastEdit /\ lastEdit \in Nat
    BY <1>b, <1>c, <1>o DEF InstanceInv, BoxTypes
  <2> QED BY <2>1, <2>2 DEF NoBadEdit
\* What every branch that goes on does: the locals change in try only.
<1>g. ASSUME NEW s \in {"rollback", "rollbackCommit", "failed"}, NEW n \in Nat, Goto(t, s),
             loc'[t] = [l EXCEPT !.try = n],
             conflicts' <= MaxConflicts,
             s = "rollbackCommit" => Starts(c),
             s = "failed" => Hopeless(c),
             s = "rollback" => Hopeless(c) \/ n + conflicts' <= MaxConflicts
      PROVE  RunInv'
  <2>1. PICK r : r = [l EXCEPT !.try = n]
    OBVIOUS
  <2>2. /\ r.op = l.op /\ r.old = l.old /\ r.new = l.new /\ r.keep = l.keep
        /\ r.undo = l.undo /\ r.try = n /\ loc'[t] = r
    BY <2>1, <1>g, TryUpdate
  <2>3. Builds(r, s, heap', box', cfg')
    BY <1>a, <1>b, <1>c, <1>g, <1>r, <2>2 DEF Builds, Past, Working
  <2>4. Tries(r, s, heap', conflicts')
    BY <1>a, <1>c, <1>g, <2>2 DEF Tries
  <2>5. ~done' => Follows(r, s, heap', box', cfg', cache')
    BY <1>a, <1>b, <1>g, <2>2 DEF Follows, Past, Working
  <2>6. /\ r.op = "refresh" => r.keep.edit <= lastEdit'
        /\ \A x \in Obj : heap'[x].edit <= lastEdit'
    BY <1>a, <1>b, <2>2
  <2>7. CASE s # "failed"
    <3>1. s \in Aside /\ pc[t] # "idle" /\ box' = NoBox
      BY <1>a, <1>g, <2>7 DEF Aside
    <3> QED BY <1>g, <2>2, <2>3, <2>4, <2>5, <2>6, <3>1, AsideStaysRun
  <2>8. CASE s = "failed"
    <3>1. /\ pc'[t] = "failed" /\ \A q \in Request \ {t} : pc'[q] = "idle"
          /\ pc'[Main] \in Open
      BY <1>a, <1>g, <2>8, InsideStep
    <3>2. BuildInv' /\ TryInv' /\ EditBound' /\
          \A q \in Request : ~done' => Follows(loc'[q], pc'[q], heap', box', cfg', cache')
      BY <1>a, <1>g, <2>2, <2>3, <2>4, <2>5, <2>6, <2>8, <3>1, HolderAfter
    <3>3. ~NoBadEdit'
      BY <1>a, <1>g, <1>h, <2>8 DEF NoBadEdit
    <3>4. ServiceInv' /\ FollowInv'
      BY <1>a, <3>1, <3>2, <3>3 DEF ServiceInv, FollowInv, Starting, Open
    <3> QED BY <3>2, <3>4 DEF RunInv
  <2> QED BY <2>7, <2>8
<1>1. CASE Unlock(t) /\ done /\ conflicts' = conflicts
  BY <1>1, <1>a, UnlockRun
<1>2. CASE Hopeless(c) /\ Goto(t, "failed") /\ loc' = loc /\ conflicts' = conflicts
  <2>1. loc'[t] = [l EXCEPT !.try = l.try]
    BY <1>2, <1>l, <1>n
  <2> QED BY <1>2, <1>b, <1>n, <2>1, <1>g
<1>3. CASE Starts(c) /\ Goto(t, "rollbackCommit") /\ loc' = loc /\ conflicts' = conflicts
  <2>1. loc'[t] = [l EXCEPT !.try = l.try]
    BY <1>3, <1>l, <1>n
  <2> QED BY <1>3, <1>b, <1>n, <2>1, <1>g
<1>4. ASSUME Conflicts(c), Spend(c), Local(t, [l EXCEPT !.try = l.try + 1]),
             Goto(t, IF l.try + 1 = RollbackAttempts THEN "failed" ELSE "rollback")
      PROVE  RunInv'
  <2>1. conflicts' <= MaxConflicts
    BY <1>4, SpendBound
  <2>2. Hopeless(c) \/ (l.try + 1 + conflicts' <= MaxConflicts /\ l.try + 1 <= MaxConflicts)
    <3>1. Hopeless(c) \/ l.try + conflicts <= MaxConflicts
      BY <1>b, <1>c DEF Tries
    <3> QED BY <1>4, <1>n, <1>r, <3>1, TryCounts DEF Runs
  <2>3. loc'[t] = [l EXCEPT !.try = l.try + 1] /\ l.try + 1 \in Nat
    BY <1>4, <1>n, <1>a DEF Local, InstanceInv, BoxTypes
  <2>4. CASE l.try + 1 = RollbackAttempts
    <3>1. MaxConflicts < RollbackAttempts /\ MaxConflicts \in Nat /\ RollbackAttempts \in Nat
      BY HalfIsFewer, BoxConstants
    <3>2. Hopeless(c) /\ Goto(t, "failed")
      BY <1>4, <1>n, <2>2, <2>4, <3>1
    <3> QED BY <2>1, <2>3, <3>2, <1>g
  <2>5. CASE l.try + 1 # RollbackAttempts
    <3>1. Goto(t, "rollback")
      BY <1>4, <2>5
    <3> QED BY <2>1, <2>2, <2>3, <3>1, <1>g
  <2> QED BY <2>4, <2>5
<1> QED BY <1>1, <1>2, <1>3, <1>4, <1>l, <1>c DEF Rollback

\* A refresh whose cache file is not written goes back to contents that start.
LEMMA ReloadedRun ==
  ASSUME InstanceInv, InstanceInv', RunInv, NEW t \in Request, Reloaded(t)
  PROVE  RunInv'
<1>a. /\ pc[t] = "reloaded" /\ cfg' = cfg /\ done' = done /\ lastEdit' = lastEdit
      /\ box' = box /\ router' = router /\ refused' = refused
      /\ conflicts' = conflicts /\ t \in Thread
  BY DEF Reloaded, ends, accepted, bounds, Thread
<1>l. PICK l \in Locals : l = loc[t]
  BY <1>a DEF InstanceInv, BoxTypes
<1>o. /\ l.new = cfg /\ l.op # "none" /\ (l.op = "refresh" => l.keep \in Built)
      /\ (l.undo => l.op = "refresh") /\ cfg \in Obj
  BY <1>a, <1>l DEF InstanceInv, BoxTypes, ObjInv, Owns
<1>b. /\ Builds(l, "reloaded", heap, box, cfg)
      /\ ~done => Follows(l, "reloaded", heap, box, cfg, cache)
      /\ l.op = "refresh" => l.keep.edit <= lastEdit
      /\ \A x \in Obj : heap[x].edit <= lastEdit
      /\ conflicts <= MaxConflicts
  BY <1>a, <1>l DEF RunInv, BuildInv, TryInv, FollowInv, EditBound
<1>0. /\ \A q \in Request : pc[q] \notin Aside /\ pc[q] # "publish"
      /\ pc[Main] \in Open
      /\ \A q \in Request \ {t} : pc[q] = "idle"
  BY <1>a, Alone DEF Aside, InstanceInv
<1>r. box # NoBox => router = Pools(box, refused)
  BY <1>0 DEF RunInv, FollowInv, Starting, Open
<1>s. ~done /\ pc[Main] \in {"wire", "running"} /\ NoBadEdit => box # NoBox
  BY <1>0 DEF RunInv, ServiceInv
<1>1. CASE (l.op = "reload" \/ l.undo) /\ Unlock(t) /\ cache' = cache /\ heap' = heap
  <2>1. ~done => cache = heap[cfg].sub
    <3>1. CASE l.undo
      BY <3>1, <1>b, <1>o DEF Builds, Follows
    <3>2. CASE ~l.undo /\ l.op = "reload"
      BY <3>2, <1>b, <1>o DEF Follows, Past, Working
    <3> QED BY <1>1, <3>1, <3>2
  <2> QED BY <1>1, <1>a, <1>r, <1>s, <2>1, UnlockRun
<1>2. CASE cache' = heap[l.new].sub /\ Unlock(t) /\ heap' = heap
  BY <1>2, <1>a, <1>o, <1>r, <1>s, UnlockRun
<1>3. CASE /\ l.op = "refresh" /\ heap' = [heap EXCEPT ![Fresh] = l.keep]
           /\ Local(t, [l EXCEPT !.new = Fresh, !.undo = TRUE])
           /\ Goto(t, "take") /\ cache' = cache
  <2>1. PICK o : o = Fresh
    OBVIOUS
  <2>2. o \in Obj /\ o # cfg
    BY <1>a, <2>1, FreshIsFree
  <2>3. PICK r : r = [l EXCEPT !.new = o, !.undo = TRUE]
    OBVIOUS
  <2>4. /\ r.op = "refresh" /\ r.new = o /\ r.keep = l.keep /\ r.undo
        /\ loc'[t] = r
    BY <1>3, <1>a, <2>1, <2>3 DEF Locals, Local, InstanceInv, BoxTypes
  <2>5. heap'[o] = l.keep /\ heap'[cfg] = heap[cfg] /\ \A x \in Obj \ {o} : heap'[x] = heap[x]
    BY <1>3, <1>o, <2>1, <2>2 DEF InstanceInv, BoxTypes
  <2>6. /\ pc'[t] = "take" /\ (\A q \in Request \ {t} : pc'[q] = "idle")
        /\ pc'[Main] = pc[Main]
    BY <1>3, <1>a, InsideStep
  <2>7. Starts(l.keep)
    <3>1. Runs(l.keep) /\ l.keep.edit = heap[cfg].edit /\ Starts(heap[cfg])
      BY <1>3, <1>b, <1>o DEF Builds
    <3> QED BY <3>1 DEF Runs, Starts, Hopeless
  <2>8. Builds(loc'[t], pc'[t], heap', box', cfg')
    BY <1>3, <1>b, <2>4, <2>5, <2>6, <2>7 DEF Builds, Past
  <2>9. Tries(loc'[t], pc'[t], heap', conflicts')
    BY <2>6 DEF Tries
  <2>10. ~done' => Follows(loc'[t], pc'[t], heap', box', cfg', cache')
    BY <1>3, <1>a, <1>b, <2>4, <2>6 DEF Follows, Past
  <2>11. /\ loc'[t].op = "refresh" => loc'[t].keep.edit <= lastEdit'
         /\ \A x \in Obj : heap'[x].edit <= lastEdit'
    BY <1>3, <1>a, <1>b, <2>4, <2>5
  <2>12. box' # NoBox => Runs(heap'[cfg']) /\ box'.sub = heap'[cfg'].sub
    BY <1>a, <2>5 DEF RunInv, BuildInv
  <2>13. BuildInv' /\ TryInv' /\ EditBound' /\
         \A q \in Request : ~done' => Follows(loc'[q], pc'[q], heap', box', cfg', cache')
    BY <1>0, <1>a, <1>b, <2>6, <2>8, <2>9, <2>10, <2>11, <2>12, HolderAfter
  <2>14. ServiceInv'
    BY <1>a, <1>0, <1>s, <2>6 DEF ServiceInv, NoBadEdit, Open
  <2>15. FollowInv'
    BY <1>a, <1>0, <1>r, <2>6, <2>13 DEF FollowInv, Starting, Open
  <2> QED BY <2>13, <2>14, <2>15 DEF RunInv
<1> QED BY <1>1, <1>2, <1>3, <1>l DEF Reloaded

\* Nothing runs at startup ...
LEMMA RunInit == Init => RunInv
<1> SUFFICES ASSUME Init PROVE RunInv
  OBVIOUS
<1>1. PICK o \in Obj :
        /\ heap = [x \in Obj |-> Startup] /\ cfg = o
        /\ loc = [t \in Thread |-> IF t = Main THEN [NoLocals EXCEPT !.old = o] ELSE NoLocals]
  BY DEF Init
<1>2. \A t \in Request : loc[t] = NoLocals /\ pc[t] = "idle"
  BY <1>1, BoxConstants DEF Init, Thread
<1>3. Startup.edit = 0 /\ Startup.sub = 0
  BY DEF Startup, Contents
<1>4. pc[Main] = "start"
  BY DEF Init, Thread
<1>5. BuildInv /\ TryInv /\ EditBound
  BY <1>1, <1>2, <1>3, <1>4, IdleRuns, IdleLocals, BoxConstants, SMTT(40)
     DEF Init, BuildInv, TryInv, EditBound
<1>6. ServiceInv /\ FollowInv
  BY <1>1, <1>2, <1>3, <1>4, IdleRuns DEF Init, ServiceInv, FollowInv
<1> QED BY <1>5, <1>6 DEF RunInv

\* ... and every step keeps what there is to fall back to.
LEMMA RunStep ==
  Drains /\ InstanceInv /\ InstanceInv' /\ UnroutedInv /\ RunInv /\ [Next]_vars => RunInv'
<1> SUFFICES ASSUME Drains, InstanceInv, InstanceInv', UnroutedInv, RunInv, [Next]_vars
             PROVE  RunInv'
  OBVIOUS
<1>1. CASE UNCHANGED vars
  BY <1>1 DEF vars, RunInv, BuildInv, TryInv, EditBound, ServiceInv, FollowInv, NoBadEdit
<1>2. CASE MainStep \/ CancelParent
  BY <1>2, StartBeginRun, StartAttemptRun, StartCommitRun, StartRouterRun, StartLastRun,
     StartFailedRun, CloseRun, AsideRun DEF MainStep
<1>3. ASSUME NEW t \in Request, EditSettings(t) \/ EditNode(t) \/ BeginReload(t)
      PROVE  RunInv'
  BY <1>3, EditRun, BeginReloadRun
<1>4. ASSUME NEW t \in Request, NEW s \in Sub, BeginRefresh(t, s) PROVE RunInv'
  BY <1>4, BeginRefreshRun
<1>5. ASSUME NEW t \in Request, Lifecycle(t) PROVE RunInv'
  BY <1>5, TakeRun, CloseOldRun, AttemptRun, CommitRun, PublishRun, ReloadedRun,
     RollbackRun, RollbackCommitRun, FailedRun DEF Lifecycle
<1>6. CASE \E t \in Request : Call(t) \/ Refused(t)
  BY <1>6, AsideRun
<1> QED BY <1>1, <1>2, <1>3, <1>4, <1>5, <1>6 DEF Next

\* What an operation may fall back to, when ports drain before the attempts run out.
LEMMA RunAlways ==
  ASSUME Drains
  PROVE  Spec => []RunInv
<1>1. RunInv /\ InstanceInv /\ InstanceInv' /\ UnroutedInv /\ [Next]_vars => RunInv'
  BY RunStep
<1> QED BY <1>1, RunInit, InstanceAlways, UnroutedAlways, PTL DEF Spec

\* A reload or refresh that fails leaves the service running, whatever the order of
\* edits, reloads and conflicts, when ports drain before the attempts run out.
THEOREM ServiceIsKept ==
  ASSUME Drains
  PROVE  Spec => []ServiceSurvives
<1>1. InstanceInv /\ RunInv => ServiceSurvives
  BY NobodyInside DEF InstanceInv, RunInv, ServiceInv, ServiceSurvives, NoBadEdit, Aside
<1> QED BY <1>1, InstanceAlways, RunAlways, PTL

\* A step of a reload moves a node to another port only where another process owns it.
LEMMA MovesAreNeeded ==
  ASSUME Drains, InstanceInv, RunInv, Next, NEW t \in Request, pc[t] = "attempt",
         heap[loc[t].new] # heap'[loc[t].new]
  PROVE  heap[loc[t].new].sub \in ForeignSubs
<1>0. /\ lock = t /\ ~Free /\ pc[Main] \in Open
      /\ \A q \in Request \ {t} : pc[q] = "idle"
  BY Alone DEF InstanceInv, Free
<1>1. ~MainStep
  BY <1>0 DEF Open, MainStep, StartBegin, StartAttempt, StartCommit, StartRouter, StartLast,
     StartFailed, Wire, Shutdown, Close, runtime
<1>2. ~CancelParent
  BY DEF CancelParent, runtime
<1>3. PICK q \in Request : Lifecycle(q)
  BY <1>0, <1>1, <1>2
     DEF Next, Call, Refused, EditSettings, EditNode, BeginReload, BeginRefresh, Arrives, runtime
<1>4. q = t
  BY <1>0, <1>3 DEF Lifecycle, Take, CloseOld, Attempt, Commit, Publish, Reloaded,
     Rollback, RollbackCommit, Failed
<1>5. Attempt(t)
  BY <1>3, <1>4 DEF Lifecycle, Take, CloseOld, Commit, Publish, Reloaded,
     Rollback, RollbackCommit, Failed
<1>6. PICK c : c = heap[loc[t].new]
  OBVIOUS
<1>7. Conflicts(c) /\ ~Hopeless(c) /\ loc[t].try >= Attempts \div 2
  BY <1>5, <1>6 DEF Attempt
<1>8. SUFFICES ASSUME c.sub \notin ForeignSubs PROVE FALSE
  BY <1>6
<1>9. conflicts > 0 /\ loc[t].try + conflicts <= MaxConflicts
  BY <1>6, <1>7, <1>8 DEF Conflicts, PortTaken, RunInv, TryInv, Tries
<1>10. /\ loc[t].try \in Nat /\ conflicts \in Nat /\ MaxConflicts \in Nat
       /\ MaxConflicts <= Attempts \div 2 /\ Attempts \div 2 \in Nat
  BY BoxConstants DEF InstanceInv, BoxTypes, Locals, Thread, Drains
<1> QED BY <1>7, <1>9, <1>10

\* A reload keeps every preserved port: only a node whose port another process owns is
\* moved, when ports drain within half of the attempts.
THEOREM PortsAreKept ==
  ASSUME Drains
  PROVE  Spec => ReloadKeepsPorts
<1>1. InstanceInv /\ RunInv /\ [Next]_vars =>
        [\A t \in Request : pc[t] = "attempt" /\ heap[loc[t].new] # heap'[loc[t].new]
                              => heap[loc[t].new].sub \in ForeignSubs]_vars
  BY MovesAreNeeded
<1> QED BY <1>1, InstanceAlways, RunAlways, PTL DEF Spec, ReloadKeepsPorts

-----------------------------------------------------------------------------
(* Saved edits. *)

\* A request that has its turn was accepted after the wiring of the server.
LEMMA LateRequests ==
  ASSUME InstanceInv, EditInv, NEW t \in Request, Arrives(t)
  PROVE  /\ \A q \in Request : pc[q] = "idle"
         /\ Free /\ src = cfg /\ src # NoObj
         /\ pc[Main] \notin {"start", "wire"} \cup Starting
         /\ called' \subseteq called /\ server' = server
<1>1. Free /\ t \in called /\ called' \subseteq called /\ server' = server
  BY DEF Arrives
<1>2. \A q \in Request : pc[q] = "idle"
  BY <1>1, NobodyInside DEF InstanceInv
<1>3. src \in {NoObj, cfg} /\ src # NoObj
  BY <1>1, <1>2 DEF EditInv
<1>4. pc[Main] \notin {"start", "wire"} \cup Starting
  BY <1>1 DEF EditInv
<1> QED BY <1>1, <1>2, <1>3, <1>4

\* A thread that does nothing has saved nothing.
LEMMA IdleEdited ==
  ASSUME InstanceInv', NEW q \in Request, pc'[q] = "idle"
  PROVE  Edited(loc'[q], pc'[q], heap', lastEdit')
<1>1. loc'[q] = NoLocals
  BY DEF InstanceInv, ObjInv, Owns
<1> QED BY <1>1, IdleLocals DEF Edited, Past, Working

\* Start works on the one configuration there is.
LEMMA StartEdits ==
  ASSUME InstanceInv, InstanceInv', EditInv,
         StartBegin \/ StartAttempt \/ StartCommit \/ StartRouter \/ StartLast
  PROVE  EditInv'
<1>1. /\ pc[Main] \in {"start"} \cup Starting /\ pc'[Main] \in Starting \cup {"wire"}
      /\ \A q \in Request : pc[q] = "idle" /\ pc'[q] = "idle"
  BY NobodyInside, MainAlone, BoxConstants
     DEF StartBegin, StartAttempt, StartCommit, StartRouter, StartLast, Goto, Starting, Open,
         InstanceInv, BoxTypes, Thread
<1>2. /\ cfg' = cfg /\ src' \in {src, cfg} /\ lastEdit' = lastEdit
      /\ loc'[Main].old = loc[Main].old /\ cfg \in Obj
      /\ called' = called /\ (server' => src' = cfg \/ (server /\ src' = src))
  <2>1. loc' = loc \/ loc' = [loc EXCEPT ![Main] = [loc[Main] EXCEPT !.try = @ + 1]]
    BY DEF StartBegin, StartAttempt, StartCommit, StartRouter, StartLast, Local
  <2>2. loc'[Main].old = loc[Main].old
    BY <2>1 DEF InstanceInv, BoxTypes, Locals, Thread
  <2>3. called' = called /\ (server' => src' = cfg \/ (server /\ src' = src))
    <3>1. CASE StartBegin
      BY <3>1 DEF StartBegin
    <3>2. CASE StartAttempt \/ StartCommit \/ StartRouter \/ StartLast
      BY <3>2 DEF StartAttempt, StartCommit, StartRouter, StartLast, runtime, accepted
    <3> QED BY <3>1, <3>2
  <2> QED BY <2>2, <2>3 DEF StartBegin, StartAttempt, StartCommit, StartRouter, StartLast,
          runtime, InstanceInv, BoxTypes
<1>3. heap'[cfg].edit = heap[cfg].edit
  BY <1>2 DEF StartBegin, StartAttempt, StartCommit, StartRouter, StartLast, runtime,
     Reassigned, InstanceInv, BoxTypes, Built
<1>4. \A q \in Request : Edited(loc'[q], pc'[q], heap', lastEdit')
  BY <1>1, IdleEdited
<1> QED BY <1>1, <1>2, <1>3, <1>4, BoxConstants DEF EditInv, Starting

\* The end of the manager closes the server to new requests.
LEMMA EndEdits ==
  ASSUME InstanceInv, InstanceInv', EditInv, StartFailed \/ Close
  PROVE  EditInv'
<1>1. /\ pc'[Main] \in {"shutdown", "end"} /\ \A q \in Request : pc'[q] = "idle"
  BY NobodyInside, MainAlone, BoxConstants
     DEF StartFailed, Close, Goto, Starting, Open, InstanceInv, BoxTypes, Thread
<1>2. /\ heap' = heap /\ cfg' = cfg /\ src' = src /\ lastEdit' = lastEdit /\ ~server'
      /\ called' = called
  BY DEF StartFailed, Close, CloseComponents
<1>4. src \in {NoObj, cfg}
  BY NobodyInside, MainAlone DEF StartFailed, Close, Starting, InstanceInv, EditInv
<1>3. \A q \in Request : Edited(loc'[q], pc'[q], heap', lastEdit')
  BY <1>1, IdleEdited
<1> QED BY <1>1, <1>2, <1>3, <1>4 DEF EditInv, Starting, Open

\* The wiring binds the settings API to that configuration.
LEMMA AsideEdits ==
  ASSUME InstanceInv, EditInv, Wire \/ Shutdown \/ CancelParent
  PROVE  EditInv'
<1>1. /\ heap' = heap /\ cfg' = cfg /\ lastEdit' = lastEdit /\ loc' = loc
      /\ \A q \in Request : pc'[q] = pc[q]
      /\ \/ pc'[Main] = pc[Main] /\ src' = src
         \/ pc[Main] = "wire" /\ pc'[Main] = "running" /\ src' = loc[Main].old
         \/ pc'[Main] = "closing" /\ src' = src
      /\ server' = server /\ called' = called /\ loc[Main].old # NoObj
  BY BoxConstants DEF ObjInv, accepted, Wire, Shutdown, CancelParent, runtime, Goto,
     InstanceInv, BoxTypes, Thread
<1> QED BY <1>1 DEF EditInv, Starting, Open

\* A request that is accepted, or answered with an error, edits nothing.
LEMMA CallEdits ==
  ASSUME ~EarlyRequests, InstanceInv, EditInv, NEW t \in Request, Call(t) \/ Refused(t)
  PROVE  EditInv'
<1>1. /\ heap' = heap /\ cfg' = cfg /\ src' = src /\ lastEdit' = lastEdit /\ loc' = loc
      /\ pc' = pc /\ server' = server
      /\ \/ called' \subseteq called
         \/ server /\ pc[Main] \notin {"start", "wire"} \cup Starting
  BY DEF Call, Refused, Arrives, runtime, Starting
<1> QED BY <1>1 DEF EditInv, Starting

\* An edit reaches the configuration that the next operation starts from: the settings
\* API and the manager share it.
LEMMA EditEdits ==
  ASSUME InstanceInv, InstanceInv', EditInv, NEW t \in Request,
         EditSettings(t) \/ EditNode(t)
  PROVE  EditInv'
<1>0. Arrives(t)
  BY DEF EditSettings, EditNode
<1>1. /\ \A q \in Request : pc[q] = "idle"
      /\ src = cfg /\ src # NoObj /\ called' \subseteq called /\ server' = server
      /\ pc[Main] \notin {"start", "wire"} \cup Starting
  BY <1>0, LateRequests
<1>2. /\ src = cfg /\ cfg \in Obj /\ pc' = pc /\ cfg' = cfg /\ src' = src /\ loc' = loc
      /\ lastEdit' = lastEdit + 1 /\ heap' = [heap EXCEPT ![cfg].edit = lastEdit + 1]
  BY <1>1 DEF EditSettings, EditNode, InstanceInv, BoxTypes
<1>3. heap'[cfg].edit = lastEdit + 1
  BY <1>2 DEF InstanceInv, BoxTypes, Built
<1>4. \A q \in Request : Edited(loc'[q], pc'[q], heap', lastEdit')
  BY <1>1, <1>2, IdleEdited
<1> QED BY <1>1, <1>2, <1>3, <1>4 DEF EditInv

\* A step of the request inside that keeps what it may end with edited.
LEMMA HolderEdits ==
  ASSUME InstanceInv', NEW t \in Request, \A q \in Request \ {t} : pc'[q] = "idle",
         Edited(loc'[t], pc'[t], heap', lastEdit'), heap'[cfg'].edit = lastEdit',
         pc'[t] = "publish" \/ src' \in {NoObj, cfg'},
         pc'[Main] \notin {"start", "wire"} \cup Starting,
         server' \/ called' # {} => src' # NoObj
  PROVE  EditInv'
<1>1. \A q \in Request : Edited(loc'[q], pc'[q], heap', lastEdit')
  BY IdleEdited
<1> QED BY <1>1 DEF EditInv

\* An operation begins with copies that hold the last edit.
LEMMA BeginEdits ==
  ASSUME InstanceInv, InstanceInv', EditInv, NEW t \in Request,
         BeginReload(t) \/ \E s \in Sub : BeginRefresh(t, s)
  PROVE  EditInv'
<1>0. Arrives(t)
  BY DEF BeginReload, BeginRefresh
<1>a. /\ \A q \in Request : pc[q] = "idle"
      /\ pc[Main] \notin {"start", "wire"} \cup Starting
      /\ src # NoObj
  BY <1>0, LateRequests
<1>b. Goto(t, "take")
  BY DEF BeginReload, BeginRefresh
<1>1. /\ \A q \in Request : pc[q] = "idle"
      /\ pc'[t] = "take" /\ (\A q \in Request \ {t} : pc'[q] = "idle") /\ pc'[Main] = pc[Main]
      /\ pc[Main] \notin {"start", "wire"} \cup Starting
  BY <1>a, <1>b, BoxConstants DEF Goto, InstanceInv, BoxTypes, Thread
<1>2. cfg' = cfg /\ src' = src /\ lastEdit' = lastEdit /\ cfg \in Obj
  BY DEF BeginReload, BeginRefresh, InstanceInv, BoxTypes
<1>o. PICK o : o = Fresh
  OBVIOUS
<1>3. o \in Obj /\ o # cfg
  BY <1>1, <1>o, FreshIsFree
<1>k. PICK k \in Built : k = heap[cfg]
  BY <1>2 DEF InstanceInv, BoxTypes
<1>4. PICK c \in Built : heap' = [heap EXCEPT ![o] = c] /\ c.edit = k.edit
  <2>1. CASE BeginReload(t)
    BY <2>1, <1>o, <1>k DEF BeginReload
  <2>2. ASSUME NEW s \in Sub, BeginRefresh(t, s)
        PROVE  \E c \in Built : heap' = [heap EXCEPT ![o] = c] /\ c.edit = k.edit
    <3>1. PICK c : c = Refreshed(k, s)
      OBVIOUS
    <3>2. c \in Built /\ c.edit = k.edit
      BY <3>1 DEF Refreshed, Contents, Built
    <3> QED BY <2>2, <3>1, <3>2, <1>o, <1>k DEF BeginRefresh
  <2> QED BY <2>1, <2>2
<1>5. PICK r : r \in {[NoLocals EXCEPT !.op = "reload", !.new = o],
                      [NoLocals EXCEPT !.op = "refresh", !.new = o, !.keep = k]} /\ loc'[t] = r
  BY <1>o, <1>k DEF BeginReload, BeginRefresh, Local, InstanceInv, BoxTypes, Thread
<1>6. r.new = o /\ (r.op = "refresh" => r.keep = k)
  BY <1>5 DEF NoLocals
<1>7. heap'[o] = c /\ heap'[cfg] = k
  BY <1>2, <1>3, <1>4, <1>k DEF InstanceInv, BoxTypes
<1>8. Edited(loc'[t], pc'[t], heap', lastEdit')
  BY <1>1, <1>2, <1>4, <1>5, <1>6, <1>7, <1>k DEF Edited, Past, EditInv
<1>9. heap'[cfg'].edit = lastEdit' /\ src' \in {NoObj, cfg'}
  BY <1>1, <1>2, <1>7, <1>k DEF EditInv
<1> QED BY <1>1, <1>2, <1>a, <1>8, <1>9, HolderEdits

\* The operation that gives the lock back.
LEMMA UnlockEdits ==
  ASSUME InstanceInv, InstanceInv', EditInv, NEW t \in Request, pc[t] # "idle", pc[t] # "publish",
         Unlock(t), heap' = heap, cfg' = cfg, src' = src, lastEdit' = lastEdit,
         accepted' = accepted
  PROVE  EditInv'
<1>1. /\ pc'[t] = "idle" /\ (\A q \in Request \ {t} : pc[q] = "idle" /\ pc'[q] = "idle")
      /\ pc'[Main] = pc[Main] /\ pc[Main] \in Open
  BY InsideStep DEF Unlock
<1>2. pc[Main] # "wire"
  BY DEF EditInv
<1>3. Edited(loc'[t], pc'[t], heap', lastEdit')
  BY <1>1, IdleEdited
<1>4. src' \in {NoObj, cfg'}
  BY <1>1 DEF EditInv
<1>5. heap'[cfg'].edit = lastEdit'
  BY DEF EditInv
<1>6. pc'[Main] \notin {"start", "wire"} \cup Starting
  BY <1>1, <1>2 DEF Starting, Open
<1>7. server' \/ called' # {} => src' # NoObj
  BY DEF accepted, EditInv
<1> QED BY <1>1, <1>3, <1>4, <1>5, <1>6, <1>7, HolderEdits

\* The operation that goes on: what it may end with, and its share of the current
\* configuration, hold the last edit.
LEMMA InsideEdits ==
  ASSUME InstanceInv, InstanceInv', EditInv, NEW t \in Request, pc[t] # "idle", NEW s, s # "idle",
         Goto(t, s), lastEdit' = lastEdit,
         loc'[t].op = loc[t].op, loc'[t].keep = loc[t].keep,
         heap'[loc'[t].new].edit = lastEdit,
         s \in Past => heap'[loc'[t].old].edit = lastEdit,
         heap'[cfg'].edit = lastEdit, s = "publish" \/ src' \in {NoObj, cfg'},
         accepted' = accepted, src' \in {src, cfg, cfg'}, cfg' \in Obj
  PROVE  EditInv'
<1>1. /\ pc'[t] = s /\ (\A q \in Request \ {t} : pc[q] = "idle" /\ pc'[q] = "idle")
      /\ pc'[Main] = pc[Main] /\ pc[Main] \in Open
  BY InsideStep
<1>2. pc'[Main] \notin {"start", "wire"} \cup Starting
  BY <1>1 DEF EditInv, Starting, Open
<1>3. Edited(loc'[t], pc'[t], heap', lastEdit')
  BY <1>1 DEF EditInv, Edited
<1>4. server' \/ called' # {} => src' # NoObj
  BY BoxConstants DEF accepted, EditInv, InstanceInv, BoxTypes
<1> QED BY <1>1, <1>2, <1>3, <1>4, HolderEdits

\* What the request inside knows when it takes a step.
LEMMA InsideKnows ==
  ASSUME InstanceInv, EditInv, NEW t \in Request, pc[t] # "idle"
  PROVE  /\ heap[cfg].edit = lastEdit /\ heap[loc[t].new].edit = lastEdit
         /\ pc[t] \in Past => heap[loc[t].old].edit = lastEdit
         /\ loc[t].op = "refresh" => loc[t].keep.edit = lastEdit
         /\ pc[t] # "publish" => src \in {NoObj, cfg}
         /\ loc[t] \in Locals /\ t \in Thread
BY Alone DEF InstanceInv, BoxTypes, EditInv, Edited, Thread

\* The configuration to go back to is the current one.
LEMMA TakeEdits ==
  ASSUME InstanceInv, InstanceInv', EditInv, NEW t \in Request, Take(t)
  PROVE  EditInv'
<1>a. /\ pc[t] = "take" /\ heap' = heap /\ cfg' = cfg /\ src' = src /\ lastEdit' = lastEdit
      /\ accepted' = accepted /\ cfg \in Obj
  BY DEF Take, InstanceInv, BoxTypes
<1>1. CASE Unlock(t)
  BY <1>1, <1>a, UnlockEdits
<1>2. CASE Local(t, [loc[t] EXCEPT !.old = cfg, !.was = box, !.try = 0]) /\ Goto(t, "closeOld")
  <2>1. PICK l \in Locals, o \in Obj, w \in Built \cup {NoBox} : l = loc[t] /\ o = cfg /\ w = box
    BY <1>a, InsideKnows DEF InstanceInv, BoxTypes
  <2>2. PICK r : r = [l EXCEPT !.old = o, !.was = w, !.try = 0]
    OBVIOUS
  <2>3. r.op = l.op /\ r.keep = l.keep /\ r.new = l.new /\ r.old = o
    BY <2>2 DEF Locals
  <2>4. loc'[t] = r
    BY <1>2, <2>1, <2>2 DEF Local, InstanceInv, BoxTypes, Thread
  <2> QED BY <1>a, <1>2, <2>1, <2>3, <2>4, InsideKnows, InsideEdits
<1> QED BY <1>1, <1>2 DEF Take

\* Steps that leave the configurations and the locals alone, but for the try counted.
LEMMA QuietEdits ==
  ASSUME InstanceInv, InstanceInv', EditInv, NEW t \in Request, pc[t] \in Past \ {"publish"},
         NEW s \in Past, Goto(t, s), lastEdit' = lastEdit, cfg' = cfg, src' = src,
         accepted' = accepted,
         \/ loc' = loc
         \/ \E n \in Nat : Local(t, [loc[t] EXCEPT !.try = n]),
         \/ heap' = heap
         \/ heap' = [heap EXCEPT ![loc[t].new] = Reassigned(heap[loc[t].new])]
  PROVE  EditInv'
<1>1. /\ loc'[t].op = loc[t].op /\ loc'[t].keep = loc[t].keep
      /\ loc'[t].new = loc[t].new /\ loc'[t].old = loc[t].old
  <2>1. ASSUME NEW n \in Nat, Local(t, [loc[t] EXCEPT !.try = n])
        PROVE  /\ loc'[t].op = loc[t].op /\ loc'[t].keep = loc[t].keep
               /\ loc'[t].new = loc[t].new /\ loc'[t].old = loc[t].old
    <3>1. PICK l \in Locals : l = loc[t]
      BY DEF InstanceInv, BoxTypes, Thread
    <3>2. PICK r : r = [l EXCEPT !.try = n]
      OBVIOUS
    <3>3. loc'[t] = r
      BY <2>1, <3>1, <3>2 DEF Local, InstanceInv, BoxTypes, Thread
    <3> QED BY <3>1, <3>2, <3>3, TryUpdate
  <2> QED BY <2>1
<1>2. loc[t].new \in Obj /\ loc[t].old \in Obj /\ cfg \in Obj
  BY DEF InstanceInv, BoxTypes, ObjInv, Owns, Past, Working
<1>3. \A x \in Obj : heap'[x].edit = heap[x].edit
  BY <1>2 DEF InstanceInv, BoxTypes, Built, Reassigned
<1>4. pc[t] # "idle" /\ s # "idle"
  BY DEF Past, Working
<1>5. /\ heap[cfg].edit = lastEdit /\ heap[loc[t].new].edit = lastEdit
      /\ heap[loc[t].old].edit = lastEdit /\ src \in {NoObj, cfg}
  BY <1>4, InsideKnows
<1> QED BY <1>1, <1>2, <1>3, <1>4, <1>5, InsideEdits DEF InstanceInv

\* Tries move nodes and lose no edit.
LEMMA AttemptEdits ==
  ASSUME InstanceInv, InstanceInv', EditInv, NEW t \in Request,
         CloseOld(t) \/ Attempt(t) \/ Rollback(t)
  PROVE  EditInv'
<1>a. /\ pc[t] \in Past \ {"publish"} /\ pc[t] # "idle"
      /\ cfg' = cfg /\ src' = src /\ lastEdit' = lastEdit /\ accepted' = accepted
  BY DEF CloseOld, Attempt, Rollback, Past, Working
<1>n. loc[t].try + 1 \in Nat
  BY <1>a, InsideKnows DEF Locals
<1>1. CASE Unlock(t) /\ heap' = heap
  BY <1>1, <1>a, UnlockEdits
<1>2. ASSUME ~(Unlock(t) /\ heap' = heap), CloseOld(t) \/ Attempt(t) \/ Rollback(t)
      PROVE  EditInv'
  <2>1. PICK s \in Past : Goto(t, s)
    BY <1>2 DEF CloseOld, Attempt, Rollback, Past, Working
  <2>2. loc' = loc \/ \E n \in Nat : Local(t, [loc[t] EXCEPT !.try = n])
    BY <1>2, <1>n DEF CloseOld, Attempt, Rollback
  <2>3. heap' = heap \/ heap' = [heap EXCEPT ![loc[t].new] = Reassigned(heap[loc[t].new])]
    BY <1>2 DEF CloseOld, Attempt, Rollback
  <2> QED BY <1>a, <2>1, <2>2, <2>3, QuietEdits
<1> QED BY <1>1, <1>2

\* Either configuration may become the current one.
LEMMA CommitEdits ==
  ASSUME InstanceInv, InstanceInv', EditInv, NEW t \in Request, Commit(t) \/ RollbackCommit(t)
  PROVE  EditInv'
<1>a. /\ pc[t] \in {"commit", "rollbackCommit"} /\ heap' = heap /\ lastEdit' = lastEdit
      /\ accepted' = accepted
  BY DEF Commit, RollbackCommit
<1>o. loc[t].new \in Obj /\ loc[t].old \in Obj
  BY <1>a DEF InstanceInv, ObjInv, Owns
<1>k. /\ heap[cfg].edit = lastEdit /\ heap[loc[t].new].edit = lastEdit
      /\ heap[loc[t].old].edit = lastEdit /\ src \in {NoObj, cfg}
  BY <1>a, InsideKnows DEF Past, Working
<1>1. CASE Unlock(t) /\ cfg' = cfg /\ src' = src
  BY <1>1, <1>a, UnlockEdits
<1>2. CASE Goto(t, "publish") /\ loc' = loc /\ cfg' = loc[t].new /\ src' = src
  BY <1>2, <1>a, <1>o, <1>k, InsideEdits
<1>3. CASE Goto(t, "failed") /\ loc' = loc /\ cfg' = loc[t].old /\ src' = cfg'
  BY <1>3, <1>a, <1>o, <1>k, InsideEdits
<1> QED BY <1>1, <1>2, <1>3 DEF Commit, RollbackCommit

\* The settings API follows.
LEMMA PublishEdits ==
  ASSUME InstanceInv, InstanceInv', EditInv, NEW t \in Request, Publish(t)
  PROVE  EditInv'
<1>1. /\ pc[t] = "publish" /\ heap' = heap /\ lastEdit' = lastEdit /\ cfg' = cfg /\ src' = cfg
      /\ Goto(t, "reloaded") /\ loc' = loc /\ accepted' = accepted /\ cfg \in Obj
  BY DEF Publish, InstanceInv, BoxTypes
<1>2. /\ heap[cfg].edit = lastEdit /\ heap[loc[t].new].edit = lastEdit
      /\ heap[loc[t].old].edit = lastEdit
  BY <1>1, InsideKnows DEF Past, Working
<1> QED BY <1>1, <1>2, InsideEdits

\* The contents an undo goes back to hold the last edit as well.
LEMMA ReloadedEdits ==
  ASSUME InstanceInv, InstanceInv', EditInv, NEW t \in Request, Reloaded(t)
  PROVE  EditInv'
<1>a. /\ pc[t] = "reloaded" /\ cfg' = cfg /\ src' = src /\ lastEdit' = lastEdit
      /\ accepted' = accepted
  BY DEF Reloaded
<1>1. CASE Unlock(t) /\ heap' = heap
  BY <1>1, <1>a, UnlockEdits
<1>2. CASE /\ loc[t].op = "refresh" /\ heap' = [heap EXCEPT ![Fresh] = loc[t].keep]
           /\ Local(t, [loc[t] EXCEPT !.new = Fresh, !.undo = TRUE]) /\ Goto(t, "take")
  <2>1. PICK o : o = Fresh
    OBVIOUS
  <2>2. o \in Obj /\ o # cfg /\ cfg \in Obj
    BY <1>a, <2>1, FreshIsFree DEF InstanceInv, BoxTypes
  <2>l. PICK l \in Locals : l = loc[t]
    BY <1>a, InsideKnows
  <2>3. PICK r : r = [l EXCEPT !.new = o, !.undo = TRUE]
    OBVIOUS
  <2>4. r.op = l.op /\ r.keep = l.keep /\ r.new = o
    BY <2>3 DEF Locals
  <2>5. loc'[t] = r
    BY <1>2, <2>1, <2>l, <2>3 DEF Local, InstanceInv, BoxTypes, Thread
  <2>6. heap'[o] = l.keep /\ heap'[cfg] = heap[cfg]
    BY <1>2, <2>1, <2>2, <2>l DEF InstanceInv, BoxTypes
  <2>7. l.keep.edit = lastEdit /\ heap[cfg].edit = lastEdit /\ src \in {NoObj, cfg}
    BY <1>2, <1>a, <2>l, InsideKnows
  <2>8. "take" \notin Past
    BY DEF Past
  <2> QED BY <1>2, <1>a, <2>2, <2>l, <2>4, <2>5, <2>6, <2>7, <2>8, InsideEdits
<1> QED BY <1>1, <1>2 DEF Reloaded

\* Nothing is edited at startup ...
LEMMA EditInit == Init => EditInv
<1> SUFFICES ASSUME Init PROVE EditInv
  OBVIOUS
<1>1. PICK o \in Obj :
        /\ heap = [x \in Obj |-> Startup] /\ cfg = o
        /\ loc = [t \in Thread |-> IF t = Main THEN [NoLocals EXCEPT !.old = o] ELSE NoLocals]
  BY DEF Init
<1>2. \A t \in Request : loc[t] = NoLocals /\ pc[t] = "idle"
  BY <1>1, BoxConstants DEF Init, Thread
<1>3. Startup.edit = 0 /\ [NoLocals EXCEPT !.old = o].old = o
  BY DEF Startup, Contents, NoLocals
<1>4. loc[Main].old = cfg
  BY <1>1, <1>3 DEF Thread
<1>5. \A t \in Request : Edited(loc[t], pc[t], heap, lastEdit)
  BY <1>2, IdleLocals DEF Edited, Past, Working
<1> QED BY <1>1, <1>2, <1>3, <1>4, <1>5 DEF Init, EditInv

\* ... and every step keeps the edits.
LEMMA EditStep ==
  ~EarlyRequests /\ InstanceInv /\ InstanceInv' /\ EditInv /\ [Next]_vars => EditInv'
<1> SUFFICES ASSUME ~EarlyRequests, InstanceInv, InstanceInv', EditInv, [Next]_vars
             PROVE  EditInv'
  OBVIOUS
<1>1. CASE UNCHANGED vars
  BY <1>1 DEF vars, EditInv
<1>2. CASE MainStep \/ CancelParent
  BY <1>2, StartEdits, EndEdits, AsideEdits DEF MainStep
<1>3. ASSUME NEW t \in Request, EditSettings(t) \/ EditNode(t) PROVE EditInv'
  BY <1>3, EditEdits
<1>4. ASSUME NEW t \in Request, BeginReload(t) \/ \E s \in Sub : BeginRefresh(t, s)
      PROVE  EditInv'
  BY <1>4, BeginEdits
<1>5. ASSUME NEW t \in Request, Failed(t) PROVE EditInv'
  BY <1>5, UnlockEdits DEF Failed, runtime
<1>6. ASSUME NEW t \in Request, Lifecycle(t) PROVE EditInv'
  BY <1>5, <1>6, TakeEdits, AttemptEdits, CommitEdits, PublishEdits, ReloadedEdits
     DEF Lifecycle
<1>7. ASSUME NEW t \in Request, Call(t) \/ Refused(t) PROVE EditInv'
  BY <1>7, CallEdits
<1> QED BY <1>1, <1>2, <1>3, <1>4, <1>6, <1>7 DEF Next

\* Every configuration an operation may end with holds the last edit, when requests wait
\* for the wiring of the server.
LEMMA EditAlways ==
  ASSUME ~EarlyRequests
  PROVE  Spec => []EditInv
<1>1. EditInv /\ InstanceInv /\ InstanceInv' /\ [Next]_vars => EditInv'
  BY EditStep
<1> QED BY <1>1, EditInit, InstanceAlways, PTL DEF Spec

\* No saved edit is lost by a reload, a refresh, an undo or a rollback.  Between
\* operations the router is the running box's where routing is enabled and its last start
\* could listen, there is none otherwise, and the cache file goes with the running box.
THEOREM RuntimeFollows ==
  ASSUME Drains, ~EarlyRequests
  PROVE  Spec => []RuntimeInStep
<1>1. InstanceInv /\ RunInv /\ EditInv => RuntimeInStep
  <2> SUFFICES ASSUME InstanceInv, RunInv, EditInv PROVE RuntimeInStep
    OBVIOUS
  <2>1. Free => heap[cfg].edit = lastEdit
    BY DEF EditInv
  <2>2. ASSUME Free, box # NoBox
        PROVE  /\ router = IF Routed(box) /\ ~refused THEN box ELSE NoBox
               /\ ~done => cache = box.sub
    <3>1. (\A q \in Request : pc[q] = "idle") /\ pc[Main] \notin Starting
      BY <2>2, NobodyInside DEF InstanceInv
    <3>2. router = Pools(box, refused)
      BY <2>2, <3>1 DEF RunInv, FollowInv, Starting, Open
    <3>3. ~done => cache = heap[cfg].sub
      BY <2>2, <3>1 DEF RunInv, FollowInv
    <3>4. box.sub = heap[cfg].sub
      BY <2>2 DEF RunInv, BuildInv
    <3> QED BY <3>2, <3>3, <3>4 DEF Pools
  <2> QED BY <2>1, <2>2 DEF RuntimeInStep
<1> QED BY <1>1, InstanceAlways, RunAlways, EditAlways, PTL
=============================================================================
