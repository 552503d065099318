-------------------------- MODULE ManagementProofs --------------------------
(***************************************************************************)
(* Proofs about what the management server is asked for: refreshes of the  *)
(* subscriptions (SubscriptionRefresh) and login sessions                  *)
(* (ManagementAuth, whose definitions are named apart).                    *)
(*                                                                         *)
(* Refreshes: for any number of callers, settings, call objects and edits. *)
(* CallInv ties the queued call, the channel, the worker's locals and the  *)
(* running call to where the worker is; SendNeverBlocks follows.  WaitInv  *)
(* says that the settings of a call only get newer while somebody waits    *)
(* for it, and TimerInv what a change of settings between two sections of  *)
(* a tick leaves behind.                                                   *)
(*                                                                         *)
(* Sessions: for any sets of logins, requests and passwords, any limit of  *)
(* the table, any TTL and any bounds.  SessionsCurrent is not inductive: a *)
(* login that has compared the password puts its session into the table a  *)
(* step later.  AuthInv adds that the session about to be put in is of the *)
(* password in force, which holds because handleAuth keeps cfgMu in        *)
(* between, that it was stamped in the past, and that the table is finite. *)
(***************************************************************************)
EXTENDS SubscriptionRefresh, ManagementAuth, TLAPS, FiniteSetTheorems

\* The worker serves a call.
Busy == {"start", "fetch", "apply", "persist", "succeeded", "failed"}

CallInv ==
  /\ worker = "gone" => stopped
  /\ worker # "gone" /\ queue # NoCall => queue = pending
  /\ worker # "begin" /\ pending # NoCall => queue = pending
  /\ worker = "begin" => queue = NoCall /\ job.call = pending /\ pending # NoCall
  /\ worker \in Busy => active = job.call
  /\ worker \notin Busy => active = NoCall
  /\ worker \notin Busy \cup {"begin"} => job.call = NoCall

WaitInv ==
  /\ \A c \in Call : calls[c].version <= version
  /\ \A p \in Caller : pc[p] = "wait" => mine[p] \in Call /\ calls[mine[p]].version >= want[p]

TimerInv ==
  /\ TimerFollowsSettings
  /\ worker \in {"ticksync", "tickrequest"} => base \in Timed \/ updates

-----------------------------------------------------------------------------
(* Types. *)

\* A section of Manager.mu that syncs keeps the types and numbers changes upwards.
LEMMA SyncTypes ==
  ASSUME TypeOK, Sync
  PROVE  /\ {base', baseline'} \subseteq Setting /\ version' \in Nat /\ version' >= version
         /\ {waiting', updates'} \subseteq BOOLEAN
<1>1. {base', baseline'} \subseteq Setting
  BY DEF TypeOK, Sync, private
<1>2. version \in Nat /\ (version' = version \/ version' = version + 1)
  BY DEF TypeOK, Sync, private
<1>3. waiting \in BOOLEAN /\ updates \in BOOLEAN
  BY DEF TypeOK
<1>4. waiting' \in BOOLEAN /\ updates' \in BOOLEAN
  BY <1>3 DEF Sync, private
<1> QED BY <1>1, <1>2, <1>4

\* Joins is the queued call, the running one or none.
LEMMA JoinsTypes ==
  ASSUME TypeOK
  PROVE  Joins \in Call \cup {NoCall}
BY DEF TypeOK, Joins

\* Enqueue keeps the types.
LEMMA EnqueueTypes ==
  ASSUME TypeOK, NEW c \in Call, Enqueue(c)
  PROVE  /\ {pending', queue'} \subseteq Call \cup {NoCall}
         /\ calls' \in [Call -> [version : Nat, outcome : {"none", "ok", "error"}]]
<1>1. NewCall(version) \in [version : Nat, outcome : {"none", "ok", "error"}]
  BY DEF TypeOK, NewCall
<1> QED BY <1>1 DEF TypeOK, Enqueue

\* Collecting call objects keeps their type.
LEMMA CollectTypes ==
  ASSUME NEW live,
         NEW cs \in [Call -> [version : Nat, outcome : {"none", "ok", "error"}]]
  PROVE  Collect(cs, live) \in [Call -> [version : Nat, outcome : {"none", "ok", "error"}]]
BY DEF Collect, NewCall

\* Types hold at startup ...
LEMMA TypeInit == Init => TypeOK
<1> SUFFICES ASSUME Init PROVE TypeOK
  OBVIOUS
<1>1. {disk, rt, base, baseline} \subseteq Setting /\ version \in Nat /\ edits \in 0..MaxEdits
  BY RefreshConstants DEF Init
<1>2. {waiting, updates, timer, stopped, lock} \subseteq BOOLEAN
  BY DEF Init
<1>3. NewCall(0) \in [version : Nat, outcome : {"none", "ok", "error"}]
  BY DEF NewCall
<1>4. NoJob \in [call : Call \cup {NoCall}, cfg : Setting, start : Setting, version : Nat,
                 old : Setting]
  BY RefreshConstants DEF NoJob
<1> QED BY <1>1, <1>2, <1>3, <1>4, RefreshConstants DEF Init, TypeOK

\* ... callers keep them ...
LEMMA CallerTypes ==
  ASSUME TypeOK, NEW p \in Caller,
         \/ \E s \in Setting : Publish(p, s)
         \/ BeginRefresh(p) \/ Steps(p) \/ GiveUp(p)
  PROVE  TypeOK'
<1>1. ASSUME NEW s \in Setting, Publish(p, s) PROVE TypeOK'
  BY <1>1, RefreshConstants DEF Publish, Goto, TypeOK, private, calling, working
<1>2. CASE UpdateSave(p)
  BY <1>2, RefreshConstants DEF UpdateSave, Goto, TypeOK, private, calling, working
<1>3. CASE UpdateConfig(p)
  BY <1>3, RefreshConstants DEF UpdateConfig, Goto, TypeOK, settings, calling, working
<1>4. CASE BeginRefresh(p)
  BY <1>4 DEF BeginRefresh, Goto, TypeOK, settings, private, calling, working
<1>5. CASE RequestSync(p)
  BY <1>5, SyncTypes DEF RequestSync, Goto, TypeOK, settings, calling, working
<1>6. CASE RequestRefresh(p)
  <2>1. /\ {pending', queue'} \subseteq Call \cup {NoCall} /\ active' = active
        /\ calls' \in [Call -> [version : Nat, outcome : {"none", "ok", "error"}]]
    BY <1>6, EnqueueTypes DEF RequestRefresh, TypeOK, calling
  <2>2. mine' \in [Caller -> Call \cup {NoCall}] /\ want' \in [Caller -> Nat]
    BY <1>6 DEF RequestRefresh, TypeOK
  <2> QED BY <1>6, <2>1, <2>2
          DEF RequestRefresh, Goto, TypeOK, settings, private, working
<1>7. CASE Leave(p)
  <2>1. calls' \in [Call -> [version : Nat, outcome : {"none", "ok", "error"}]]
    BY <1>7, CollectTypes DEF Leave, TypeOK
  <2> QED BY <1>7, <2>1 DEF Leave, Goto, TypeOK, settings, private, working
<1> QED BY <1>1, <1>2, <1>3, <1>4, <1>5, <1>6, <1>7 DEF Steps, Return, GiveUp

\* ... and so does the worker.
LEMMA WorkerTypes ==
  ASSUME TypeOK, Worker
  PROVE  TypeOK'
<1>1. CASE ResetSync \/ Tick \/ TickSync
  BY <1>1, SyncTypes DEF ResetSync, Tick, TickSync, TypeOK, settings, calling, callers
<1>2. CASE ResetTimer \/ TakeUpdate \/ TickCheck
  BY <1>2 DEF ResetTimer, TakeUpdate, TickCheck, TypeOK, settings, private, calling, callers
<1>3. CASE TickRefresh
  <2>1. /\ {pending', queue'} \subseteq Call \cup {NoCall} /\ active' = active
        /\ calls' \in [Call -> [version : Nat, outcome : {"none", "ok", "error"}]]
    BY <1>3, EnqueueTypes DEF TickRefresh, TypeOK, calling
  <2> QED BY <1>3, <2>1 DEF TickRefresh, TypeOK, settings, private, callers
<1>4. CASE TakeRequest
  BY <1>4 DEF TakeRequest, TypeOK, settings, private, callers
<1>5. CASE BeginWork
  BY <1>5, ZenonT(40) DEF BeginWork, TypeOK, settings, private, callers
<1>6. CASE ReadStart \/ FetchFails
  BY <1>6 DEF ReadStart, FetchFails, TypeOK, settings, private, calling, callers
<1>7. CASE BeginApply
  BY <1>7 DEF BeginApply, TypeOK, settings, private, calling, callers
<1>8. CASE ReloadFails \/ Commit \/ Persist \/ PersistFails
  <2>1. lock \in BOOLEAN /\ job.cfg \in Setting /\ job.old \in Setting /\ rt \in Setting
    BY DEF TypeOK
  <2>2. lock' \in BOOLEAN
    BY <1>8, <2>1 DEF ReloadFails, Commit, Persist, PersistFails
  <2>3. rt' \in Setting /\ disk' = disk
    BY <1>8, <2>1 DEF ReloadFails, Commit, Persist, PersistFails, settings
  <2>4. worker' \in {"persist", "succeeded", "failed"}
    BY <1>8 DEF ReloadFails, Commit, Persist, PersistFails
  <2>5. /\ UNCHANGED <<base, version, waiting, baseline, updates, timer, stopped, job>>
        /\ UNCHANGED <<pending, queue, active, calls, pc, arg, mine, want, edits>>
    BY <1>8 DEF ReloadFails, Commit, Persist, PersistFails, private, calling, callers
  <2> QED BY <2>2, <2>3, <2>4, <2>5 DEF TypeOK
<1>9. CASE Finish
  <2>1. PICK o \in {"ok", "error"} :
          calls' = Collect([calls EXCEPT ![active].outcome = o],
                           {pending} \cup {mine[p] : p \in Caller})
    BY <1>9 DEF Finish
  <2>2. [calls EXCEPT ![active].outcome = o]
          \in [Call -> [version : Nat, outcome : {"none", "ok", "error"}]]
    BY ZenonT(40) DEF TypeOK
  <2>3. calls' \in [Call -> [version : Nat, outcome : {"none", "ok", "error"}]]
    BY <2>1, <2>2, CollectTypes
  <2>4. NoJob \in [call : Call \cup {NoCall}, cfg : Setting, start : Setting, version : Nat,
                   old : Setting]
    BY RefreshConstants DEF NoJob
  <2> QED BY <1>9, <2>3, <2>4 DEF Finish, TypeOK, settings, private, callers
<1>10. CASE Exit
  <2>1. [calls EXCEPT ![pending].outcome = "error"]
          \in [Call -> [version : Nat, outcome : {"none", "ok", "error"}]]
    BY ZenonT(40) DEF TypeOK
  <2>2. calls' \in [Call -> [version : Nat, outcome : {"none", "ok", "error"}]]
    <3>1. CASE calls' = calls
      BY <3>1 DEF TypeOK
    <3>2. CASE calls' = Collect([calls EXCEPT ![pending].outcome = "error"],
                                {mine[p] : p \in Caller})
      BY <3>2, <2>1, CollectTypes
    <3> QED BY <1>10, <3>1, <3>2 DEF Exit
  <2> QED BY <1>10, <2>2 DEF Exit, TypeOK, settings, private, callers
<1> QED BY <1>1, <1>2, <1>3, <1>4, <1>5, <1>6, <1>7, <1>8, <1>9, <1>10 DEF Worker

\* Every step keeps the types.
LEMMA TypeStep == TypeOK /\ [Next]_vars => TypeOK'
<1> SUFFICES ASSUME TypeOK, [Next]_vars PROVE TypeOK'
  OBVIOUS
<1>1. CASE UNCHANGED vars
  BY <1>1 DEF vars, TypeOK, settings, private, calling, working, callers
<1>2. CASE Stop
  BY <1>2 DEF Stop, TypeOK, settings, private, calling, working, callers
<1>3. CASE Poll
  BY <1>3, SyncTypes DEF Poll, TypeOK, settings, calling, working, callers
<1> QED BY <1>1, <1>2, <1>3, CallerTypes, WorkerTypes DEF Next

-----------------------------------------------------------------------------
(* The queued call and the running one. *)

\* Nothing is queued or running at startup ...
LEMMA CallInit == Init => CallInv
BY DEF Init, CallInv, Busy, NoJob

\* ... a caller queues behind what there is ...
LEMMA CallerCalls ==
  ASSUME TypeOK, CallInv, NEW p \in Caller,
         \/ \E s \in Setting : Publish(p, s)
         \/ BeginRefresh(p) \/ Steps(p) \/ GiveUp(p)
  PROVE  CallInv'
<1>1. UNCHANGED <<worker, job, active, stopped>>
  BY DEF Publish, BeginRefresh, Steps, UpdateSave, UpdateConfig, RequestSync, RequestRefresh,
     Return, GiveUp, Leave, calling, working
<1>2. CASE UNCHANGED <<pending, queue>>
  BY <1>1, <1>2 DEF CallInv
<1>3. CASE \E c \in Call : ~stopped /\ Enqueue(c)
  <2>1. CASE UNCHANGED <<pending, queue>>
    BY <1>1, <2>1 DEF CallInv
  <2>2. CASE pending = NoCall /\ queue = NoCall /\ pending' = queue'
    BY <1>1, <2>2 DEF CallInv
  <2> QED BY <1>3, <2>1, <2>2 DEF Enqueue, Joins
<1> QED BY <1>2, <1>3 DEF Publish, BeginRefresh, Steps, UpdateSave, UpdateConfig, RequestSync,
        RequestRefresh, Return, GiveUp, Leave, calling

\* ... and the worker moves a call from the queue to the running one.
LEMMA WorkerCalls ==
  ASSUME TypeOK, CallInv, Worker
  PROVE  CallInv'
<1>1. CASE ResetSync \/ ResetTimer \/ TakeUpdate \/ Tick \/ TickCheck \/ TickSync
  BY <1>1 DEF ResetSync, ResetTimer, TakeUpdate, Tick, TickCheck, TickSync, calling, CallInv,
     Busy
<1>2. CASE TickRefresh
  <2>1. /\ worker = "tickrequest" /\ worker' = "select" /\ active' = active
        /\ UNCHANGED <<stopped, job>>
    BY <1>2 DEF TickRefresh, calling
  <2>2. CASE UNCHANGED <<pending, queue>>
    BY <2>1, <2>2 DEF CallInv, Busy
  <2>3. CASE pending = NoCall /\ queue = NoCall /\ pending' = queue'
    BY <2>1, <2>3 DEF CallInv, Busy
  <2> QED BY <1>2, <2>2, <2>3 DEF TickRefresh, Enqueue, Joins, calling
<1>3. CASE TakeRequest
  <2>1. job'.call = queue
    BY <1>3 DEF TakeRequest, TypeOK
  <2> QED BY <1>3, <2>1 DEF TakeRequest, CallInv, Busy
<1>4. CASE BeginWork
  <2>1. job'.call = job.call
    BY <1>4 DEF BeginWork, TypeOK
  <2> QED BY <1>4, <2>1 DEF BeginWork, CallInv, Busy
<1>5. CASE ReadStart \/ BeginApply
  <2>1. job'.call = job.call
    BY <1>5 DEF ReadStart, BeginApply, TypeOK
  <2> QED BY <1>5, <2>1 DEF ReadStart, BeginApply, calling, CallInv, Busy
<1>6. CASE FetchFails \/ ReloadFails \/ Commit \/ Persist \/ PersistFails
  BY <1>6 DEF FetchFails, ReloadFails, Commit, Persist, PersistFails, calling, CallInv, Busy
<1>7. CASE Finish
  BY <1>7 DEF Finish, NoJob, CallInv, Busy
<1>8. CASE Exit
  BY <1>8 DEF Exit, CallInv, Busy
<1> QED BY <1>1, <1>2, <1>3, <1>4, <1>5, <1>6, <1>7, <1>8 DEF Worker

\* Every step keeps the calls in step with the worker.
LEMMA CallStep == TypeOK /\ CallInv /\ [Next]_vars => CallInv'
<1> SUFFICES ASSUME TypeOK, CallInv, [Next]_vars PROVE CallInv'
  OBVIOUS
<1>1. CASE UNCHANGED vars \/ Stop \/ Poll
  BY <1>1 DEF vars, Stop, Poll, calling, working, CallInv
<1> QED BY <1>1, CallerCalls, WorkerCalls DEF Next

\* The invariants about types and calls.
LEMMA CallsAlways == Spec => [](TypeOK /\ CallInv)
BY TypeInit, TypeStep, CallInit, CallStep, PTL DEF Spec

\* requestRefresh never waits at the requests channel, so Manager.mu is never held by a
\* blocked send, whoever queues a refresh and wherever the worker is.
THEOREM SendsNeverBlock == Spec => []SendNeverBlocks
<1>1. TypeOK /\ CallInv => SendNeverBlocks
  BY DEF CallInv, SendNeverBlocks
<1> QED BY <1>1, CallsAlways, PTL

-----------------------------------------------------------------------------
(* The settings a caller is served with. *)

\* The call object that Enqueue takes is nobody's.
LEMMA FreshIsFree ==
  ASSUME TypeOK, CallInv, pending = NoCall, queue = NoCall
  PROVE  Fresh \in Call /\ \A p \in Caller : Fresh # mine[p]
<1>1. job.call \in {NoCall, active} /\ active \in Call \cup {NoCall}
  BY DEF TypeOK, CallInv
<1>2. mine \in [Editor \cup Refresher -> Call \cup {NoCall}]
  BY DEF TypeOK, Caller
<1>3. PICK c \in Call : c # active /\ \A p \in Editor \cup Refresher : c # mine[p]
  BY <1>1, <1>2, EnoughCalls
<1>4. c \notin {pending, queue, active, job.call} \cup {mine[p] : p \in Caller}
  BY <1>1, <1>3, RefreshConstants DEF Caller
<1>5. /\ Fresh \in Call
      /\ Fresh \notin {pending, queue, active, job.call} \cup {mine[p] : p \in Caller}
  BY <1>4 DEF Fresh
<1> QED BY <1>5

\* Enqueue gives the caller's call the settings of this moment, and nobody else's call
\* older ones.
LEMMA EnqueueServes ==
  ASSUME TypeOK, CallInv, WaitInv, NEW c \in Call, Enqueue(c)
  PROVE  /\ calls'[c].version = version
         /\ \A d \in Call : calls'[d].version <= version
         /\ \A p \in Caller : pc[p] = "wait" => calls'[mine[p]].version >= want[p]
<1>0. /\ \A d \in Call : calls[d].version <= version /\ calls[d].version \in Nat
      /\ \A p \in Caller : pc[p] = "wait" =>
                             mine[p] \in Call /\ calls[mine[p]].version >= want[p]
      /\ version \in Nat /\ \A p \in Caller : want[p] \in Nat
  BY DEF WaitInv, TypeOK
<1>1. CASE Joins # NoCall /\ c = Joins /\ c = pending
  <2>1. calls' = [calls EXCEPT ![c].version = version]
    BY <1>1 DEF Enqueue
  <2>2. \A d \in Call : calls'[d].version = IF d = c THEN version ELSE calls[d].version
    BY <2>1 DEF TypeOK
  <2> QED BY <1>0, <2>2
<1>2. CASE Joins # NoCall /\ c = Joins /\ c # pending
  BY <1>0, <1>2 DEF Enqueue, Joins
<1>3. CASE Joins = NoCall
  <2>1. c = Fresh /\ pending = NoCall /\ queue = NoCall
    BY <1>3 DEF Enqueue, Joins
  <2>2. \A p \in Caller : c # mine[p]
    BY <2>1, FreshIsFree
  <2>3. calls' = [calls EXCEPT ![c] = NewCall(version)]
    BY <1>3 DEF Enqueue
  <2>4. NewCall(version).version = version
    BY DEF NewCall
  <2>5. \A d \in Call : calls'[d].version = IF d = c THEN version ELSE calls[d].version
    BY <2>3, <2>4 DEF TypeOK
  <2> QED BY <1>0, <2>2, <2>5
<1> QED BY <1>1, <1>2, <1>3 DEF Enqueue

\* Collecting keeps the calls somebody waits for.
LEMMA CollectKeeps ==
  ASSUME NEW cs, NEW live, NEW c \in Call
  PROVE  Collect(cs, live)[c] = IF c \in live THEN cs[c] ELSE NewCall(0)
BY DEF Collect

\* Nobody waits at startup ...
LEMMA WaitInit == Init => WaitInv
BY DEF Init, WaitInv, NewCall

\* ... a caller begins to wait for a call with its settings ...
LEMMA CallerWaits ==
  ASSUME TypeOK, CallInv, WaitInv, NEW p \in Caller,
         \/ \E s \in Setting : Publish(p, s)
         \/ BeginRefresh(p) \/ Steps(p) \/ GiveUp(p)
  PROVE  WaitInv'
<1>0. /\ \A d \in Call : calls[d].version <= version /\ calls[d].version \in Nat
      /\ \A q \in Caller : pc[q] = "wait" =>
                             mine[q] \in Call /\ calls[mine[q]].version >= want[q]
      /\ version \in Nat /\ \A q \in Caller : want[q] \in Nat
  BY DEF WaitInv, TypeOK
<1>1. ASSUME UNCHANGED <<calls, mine, want>>, version' \in Nat, version' >= version,
             \A q \in Caller : pc'[q] = "wait" => pc[q] = "wait"
      PROVE  WaitInv'
  BY <1>0, <1>1 DEF WaitInv
<1>2. ASSUME NEW s \in Setting, Publish(p, s) PROVE WaitInv'
  BY <1>0, <1>1, <1>2 DEF Publish, Goto, TypeOK, private, calling
<1>3. CASE UpdateSave(p) \/ BeginRefresh(p)
  BY <1>0, <1>1, <1>3 DEF UpdateSave, BeginRefresh, Goto, TypeOK, private, calling
<1>4. CASE UpdateConfig(p)
  BY <1>0, <1>1, <1>4 DEF UpdateConfig, Goto, TypeOK, calling
<1>5. CASE RequestSync(p)
  BY <1>0, <1>1, <1>5, SyncTypes DEF RequestSync, Goto, TypeOK, calling
<1>6. CASE RequestRefresh(p) /\ Goto(p, "idle") /\ UNCHANGED <<calling, mine, want>>
  BY <1>0, <1>1, <1>6 DEF RequestRefresh, Goto, TypeOK, private, calling
<1>7. ASSUME RequestRefresh(p), NEW c \in Call, Enqueue(c), mine' = [mine EXCEPT ![p] = c],
             want' = [want EXCEPT ![p] = version], Goto(p, "wait")
      PROVE  WaitInv'
  <2>1. /\ calls'[c].version = version
        /\ \A d \in Call : calls'[d].version <= version
        /\ \A q \in Caller : pc[q] = "wait" => calls'[mine[q]].version >= want[q]
    BY <1>7, EnqueueServes
  <2>2. version' = version
    BY <1>7 DEF RequestRefresh, private
  <2>3. mine'[p] = c /\ want'[p] = version
    BY <1>7 DEF TypeOK
  <2>4. \A q \in Caller \ {p} : mine'[q] = mine[q] /\ want'[q] = want[q] /\ pc'[q] = pc[q]
    BY <1>7 DEF Goto, TypeOK
  <2> QED BY <1>0, <2>1, <2>2, <2>3, <2>4 DEF WaitInv
<1>8. CASE Leave(p)
  <2>1. /\ version' = version /\ pc'[p] = "idle"
        /\ \A q \in Caller \ {p} : mine'[q] = mine[q] /\ want'[q] = want[q] /\ pc'[q] = pc[q]
    BY <1>8 DEF Leave, Goto, TypeOK, private
  <2>2. PICK live : /\ calls' = Collect(calls, live)
                    /\ \A q \in Caller \ {p} : mine[q] \in live
    BY <1>8 DEF Leave
  <2>3. NewCall(0).version = 0
    BY DEF NewCall
  <2>4. \A d \in Call : calls'[d].version <= version
    BY <1>0, <2>2, <2>3, CollectKeeps
  <2>5. \A q \in Caller \ {p} : mine[q] \in Call => calls'[mine[q]] = calls[mine[q]]
    BY <2>2, CollectKeeps
  <2> QED BY <1>0, <2>1, <2>4, <2>5 DEF WaitInv
<1> QED BY <1>2, <1>3, <1>4, <1>5, <1>6, <1>7, <1>8
        DEF Steps, RequestRefresh, Return, GiveUp

\* ... and the worker takes the settings of a later moment.
LEMMA WorkerWaits ==
  ASSUME TypeOK, CallInv, WaitInv, Worker
  PROVE  WaitInv'
<1>0. /\ \A d \in Call : calls[d].version <= version /\ calls[d].version \in Nat
      /\ \A q \in Caller : pc[q] = "wait" =>
                             mine[q] \in Call /\ calls[mine[q]].version >= want[q]
      /\ version \in Nat /\ \A q \in Caller : want[q] \in Nat
  BY DEF WaitInv, TypeOK
<1>1. CASE UNCHANGED <<calls, mine, want, pc>> /\ version' \in Nat /\ version' >= version
  BY <1>0, <1>1 DEF WaitInv
<1>2. CASE ResetSync \/ Tick \/ TickSync
  BY <1>1, <1>2, SyncTypes DEF ResetSync, Tick, TickSync, calling, callers
<1>3. CASE ResetTimer \/ TakeUpdate \/ TickCheck \/ TakeRequest \/ ReadStart \/ FetchFails
           \/ BeginApply \/ ReloadFails \/ Commit \/ Persist \/ PersistFails
  <2>1. UNCHANGED <<calls, mine, want, pc, version>>
    BY <1>3 DEF ResetTimer, TakeUpdate, TickCheck, TakeRequest, ReadStart, FetchFails,
       BeginApply, ReloadFails, Commit, Persist, PersistFails, calling, callers, private
  <2> QED BY <1>0, <1>1, <2>1
<1>4. CASE TickRefresh
  <2>1. UNCHANGED <<mine, want, pc, version>>
    BY <1>4 DEF TickRefresh, private, callers
  <2>2. CASE UNCHANGED calling
    BY <1>0, <1>1, <2>1, <2>2 DEF calling
  <2>3. ASSUME NEW c \in Call, Enqueue(c) PROVE WaitInv'
    <3>1. /\ \A d \in Call : calls'[d].version <= version
          /\ \A q \in Caller : pc[q] = "wait" => calls'[mine[q]].version >= want[q]
      BY <2>3, EnqueueServes
    <3> QED BY <1>0, <2>1, <3>1 DEF WaitInv
  <2> QED BY <1>4, <2>2, <2>3 DEF TickRefresh
<1>5. CASE BeginWork
  <2>1. UNCHANGED <<mine, want, pc, version>>
    BY <1>5 DEF BeginWork, private, callers
  <2>2. job.call \in Call \cup {NoCall} /\ calls' = [calls EXCEPT ![job.call].version = version]
    BY <1>5 DEF BeginWork, TypeOK
  <2>3. \A d \in Call :
          calls'[d].version = IF d = job.call THEN version ELSE calls[d].version
    BY <2>2 DEF TypeOK
  <2> QED BY <1>0, <2>1, <2>3 DEF WaitInv
<1>6. ASSUME NEW x, NEW o, NEW live, calls' = Collect([calls EXCEPT ![x].outcome = o], live),
             \A q \in Caller : mine[q] \in live, UNCHANGED <<mine, want, pc, version>>
      PROVE  WaitInv'
  <2>1. PICK cs : cs = [calls EXCEPT ![x].outcome = o]
    OBVIOUS
  <2>2. \A d \in Call : cs[d].version = calls[d].version
    BY <2>1 DEF TypeOK
  <2>3. NewCall(0).version = 0
    BY DEF NewCall
  <2>c. calls' = Collect(cs, live)
    BY <1>6, <2>1
  <2>4. \A d \in Call : calls'[d] = IF d \in live THEN cs[d] ELSE NewCall(0)
    BY <2>c, CollectKeeps
  <2>5. \A d \in Call : calls'[d].version <= version
    BY <1>0, <2>2, <2>3, <2>4
  <2>6. \A q \in Caller : mine[q] \in Call => calls'[mine[q]].version = calls[mine[q]].version
    BY <1>6, <2>2, <2>4
  <2> QED BY <1>0, <1>6, <2>5, <2>6 DEF WaitInv
<1>7. CASE Finish
  <2>1. PICK x, o, live : /\ x = active
                          /\ o = IF worker = "succeeded" THEN "ok" ELSE "error"
                          /\ live = {pending} \cup {mine[p] : p \in Caller}
    OBVIOUS
  <2>2. calls' = Collect([calls EXCEPT ![x].outcome = o], live)
    BY <1>7, <2>1 DEF Finish
  <2>3. \A q \in Caller : mine[q] \in live
    BY <2>1
  <2>4. UNCHANGED <<mine, want, pc, version>>
    BY <1>7 DEF Finish, private, callers
  <2> QED BY <1>6, <2>2, <2>3, <2>4
<1>8. CASE Exit
  <2>1. UNCHANGED <<mine, want, pc, version>>
    BY <1>8 DEF Exit, private, callers
  <2>2. CASE UNCHANGED calls
    BY <1>0, <1>1, <2>1, <2>2
  <2>3. CASE calls' = Collect([calls EXCEPT ![pending].outcome = "error"],
                              {mine[p] : p \in Caller})
    BY <1>6, <2>1, <2>3
  <2> QED BY <1>8, <2>2, <2>3 DEF Exit
<1> QED BY <1>2, <1>3, <1>4, <1>5, <1>7, <1>8 DEF Worker

\* Every step keeps the settings of a call no older than its callers'.
LEMMA WaitStep == TypeOK /\ CallInv /\ WaitInv /\ [Next]_vars => WaitInv'
<1> SUFFICES ASSUME TypeOK, CallInv, WaitInv, [Next]_vars PROVE WaitInv'
  OBVIOUS
<1>1. CASE UNCHANGED vars \/ Stop
  BY <1>1 DEF vars, Stop, private, calling, callers, WaitInv
<1>2. CASE Poll
  <2>1. UNCHANGED <<calls, mine, want, pc>> /\ version' >= version /\ version' \in Nat
    BY <1>2, SyncTypes DEF Poll, calling, callers
  <2> QED BY <2>1 DEF WaitInv, TypeOK
<1> QED BY <1>1, <1>2, CallerWaits, WorkerWaits DEF Next

\* A caller that is told its refresh succeeded was served with settings no older than
\* its own, also when it shared a queued or running refresh.
THEOREM RefreshesAreCurrent == Spec => []RefreshUsesCurrent
<1>1. WaitInv => RefreshUsesCurrent
  BY DEF WaitInv, RefreshUsesCurrent
<1> QED BY <1>1, CallsAlways, WaitInit, WaitStep, PTL DEF Spec

-----------------------------------------------------------------------------
(* The timer. *)

\* A sync that changes the worker's settings leaves a signal.
LEMMA SyncSignals ==
  ASSUME Sync
  PROVE  (base' = base /\ updates' = updates) \/ updates'
BY DEF Sync, private

\* The worker arms the timer before it waits ...
LEMMA TimerInit == Init => TimerInv
BY DEF Init, TimerInv, TimerFollowsSettings

\* ... a change of the settings leaves a signal for it ...
LEMMA OthersTimer ==
  ASSUME TypeOK, CallInv, TimerInv, UNCHANGED <<worker, timer>>,
         UNCHANGED <<base, updates>> \/ updates',
         stopped => stopped', queue' = queue \/ (queue = NoCall /\ queue' # NoCall)
  PROVE  TimerInv'
BY DEF TimerInv, TimerFollowsSettings

\* ... and a tick ends with a queued refresh or a signal.
LEMMA WorkerTimer ==
  ASSUME TypeOK, CallInv, TimerInv, Worker
  PROVE  TimerInv'
<1>1. CASE ResetSync \/ Tick
  BY <1>1 DEF ResetSync, Tick, TimerInv, TimerFollowsSettings
<1>2. CASE ResetTimer
  BY <1>2 DEF ResetTimer, private, TimerInv, TimerFollowsSettings
<1>3. CASE TickCheck
  BY <1>3 DEF TickCheck, private, TimerInv, TimerFollowsSettings
<1>4. CASE TickSync
  BY <1>4, SyncSignals DEF TickSync, TimerInv, TimerFollowsSettings
<1>5. CASE TickRefresh
  <2>1. worker = "tickrequest" /\ worker' = "select" /\ active = NoCall
    BY <1>5 DEF TickRefresh, CallInv, Busy
  <2>2. CASE stopped
    BY <1>5, <2>1, <2>2 DEF TickRefresh, TimerInv, TimerFollowsSettings
  <2>3. CASE ~stopped /\ base = 0
    BY <1>5, <2>1, <2>3, RefreshConstants
       DEF TickRefresh, private, TimerInv, TimerFollowsSettings
  <2>4. ASSUME NEW c \in Call, Enqueue(c) PROVE TimerInv'
    <3>1. queue' # NoCall
      BY <2>1, <2>4, RefreshConstants DEF Enqueue, Joins, CallInv
    <3> QED BY <2>1, <3>1 DEF TimerInv, TimerFollowsSettings
  <2> QED BY <1>5, <2>2, <2>3, <2>4 DEF TickRefresh
<1>6. CASE worker' \notin {"select", "ticksync", "tickrequest"}
  BY <1>6 DEF TimerInv, TimerFollowsSettings
<1> QED BY <1>1, <1>2, <1>3, <1>4, <1>5, <1>6
        DEF Worker, TakeUpdate, TakeRequest, BeginWork, ReadStart, FetchFails, BeginApply,
            ReloadFails, Commit, Persist, PersistFails, Finish, Exit

\* Every step keeps the timer in step.
LEMMA TimerStep == TypeOK /\ CallInv /\ TimerInv /\ [Next]_vars => TimerInv'
<1> SUFFICES ASSUME TypeOK, CallInv, TimerInv, [Next]_vars PROVE TimerInv'
  OBVIOUS
<1>1. CASE UNCHANGED vars \/ Stop
  BY <1>1, OthersTimer DEF vars, Stop, private, calling, working
<1>2. CASE Poll
  BY <1>2, SyncSignals, OthersTimer DEF Poll, calling, working
<1>3. ASSUME NEW p \in Caller, NEW s \in Setting, Publish(p, s) PROVE TimerInv'
  BY <1>3, OthersTimer DEF Publish, private, calling, working
<1>4. ASSUME NEW p \in Caller,
             BeginRefresh(p) \/ UpdateSave(p) \/ UpdateConfig(p) \/ Leave(p)
      PROVE  TimerInv'
  BY <1>4, OthersTimer
     DEF BeginRefresh, UpdateSave, UpdateConfig, Leave, private, calling, working
<1>5. ASSUME NEW p \in Caller, RequestSync(p) PROVE TimerInv'
  BY <1>5, SyncSignals, OthersTimer DEF RequestSync, calling, working
<1>6. ASSUME NEW p \in Caller, RequestRefresh(p) PROVE TimerInv'
  <2>1. queue' = queue \/ (queue = NoCall /\ queue' # NoCall)
    BY <1>6, RefreshConstants DEF RequestRefresh, Enqueue, calling
  <2> QED BY <1>6, <2>1, OthersTimer DEF RequestRefresh, private, working
<1> QED BY <1>1, <1>2, <1>3, <1>4, <1>5, <1>6, WorkerTimer DEF Next, Steps, Return, GiveUp

\* No order of settings changes, ticks and refreshes loses the timer of periodic
\* refreshes or leaves an old one running.
THEOREM TimerIsKept == Spec => []TimerFollowsSettings
<1>1. TimerInv => TimerFollowsSettings
  BY DEF TimerInv
<1> QED BY <1>1, CallsAlways, TimerInit, TimerStep, PTL DEF Spec

-----------------------------------------------------------------------------
(* Login sessions. *)

MintedUnderLock == \A l \in Login : lpc[l] = "insert" => under[l] = changes

StampedInThePast == \A l \in Login : created[l] <= clock

AuthInv == SessionsCurrent /\ MintedUnderLock /\ StampedInThePast /\ IsFiniteSet(sessions)

\* The initial states satisfy it.
LEMMA AuthInvInit == AuthInit => AuthInv
<1> SUFFICES ASSUME AuthInit PROVE AuthInv
  OBVIOUS
<1>1. IsFiniteSet(sessions) /\ Cardinality(sessions) = 0
  BY FS_EmptySet DEF AuthInit
<1>2. AuthTypeOK
  BY AuthConstants DEF AuthInit, AuthTypeOK
<1> QED BY <1>1, <1>2, AuthConstants DEF AuthInit, AuthInv, SessionsCurrent, MintedUnderLock,
     StampedInThePast

\* A step that only takes sessions out leaves the table within its limit.
LEMMA FewerSessions ==
  ASSUME IsFiniteSet(sessions), Cardinality(sessions) <= MaxSessions, sessions' \subseteq sessions
  PROVE  IsFiniteSet(sessions') /\ Cardinality(sessions') <= MaxSessions
<1>1. /\ IsFiniteSet(sessions') /\ Cardinality(sessions') <= Cardinality(sessions)
      /\ Cardinality(sessions') \in Nat /\ Cardinality(sessions) \in Nat
  BY FS_Subset, FS_CardinalityType
<1> QED BY <1>1, AuthConstants

\* createSession makes room for one session: the table stays within its limit, and if a
\* session that has not expired makes room, the table was full and it was the oldest.
LEMMA CreateSession ==
  ASSUME AuthInv, NEW l \in Login, createSession(l)
  PROVE  /\ sessions' \subseteq sessions \cup {l} /\ l \in sessions'
         /\ IsFiniteSet(sessions') /\ Cardinality(sessions') <= MaxSessions
         /\ \A t \in sessions \ sessions' :
              \/ Expired(t)
              \/ /\ Cardinality(sessions') = MaxSessions
                 /\ \A u \in sessions : Expired(u) \/ created[t] <= created[u]
<1> DEFINE live == {t \in sessions : created[l] < created[t] + TTL}
<1>1. PICK gone \in Victims(live) : sessions' = (live \ gone) \cup {l}
  BY DEF createSession
<1>2. IsFiniteSet(live) /\ Cardinality(live) <= Cardinality(sessions)
  BY FS_Subset DEF AuthInv
<1>3. Cardinality(live) \in Nat /\ Cardinality(sessions) \in Nat /\ MaxSessions \in Nat \ {0}
  BY <1>2, FS_CardinalityType, AuthConstants DEF AuthInv
<1>4. Cardinality(live) <= MaxSessions
  BY <1>2, <1>3 DEF AuthInv, SessionsCurrent
<1>5. l \notin live
  BY DEF createSession, AuthInv, SessionsCurrent
<1>6. \A t \in sessions \ live : Expired(t)
  <2> SUFFICES ASSUME NEW t \in sessions, ~(created[l] < created[t] + TTL) PROVE Expired(t)
    OBVIOUS
  <2>1. created[l] <= clock /\ created[l] \in Nat /\ created[t] \in Nat /\ clock \in Nat
    BY AuthConstants DEF AuthInv, StampedInThePast, SessionsCurrent, AuthTypeOK
  <2> QED BY <2>1, AuthConstants DEF Expired
<1> HIDE DEF live
<1>7. live \subseteq sessions
  BY DEF live
<1>8. CASE Cardinality(live) < MaxSessions
  <2>1. sessions' = live \cup {l}
    BY <1>1, <1>8 DEF Victims
  <2>2. IsFiniteSet(sessions') /\ Cardinality(sessions') = Cardinality(live) + 1
    BY <2>1, <1>2, <1>5, FS_AddElement
  <2>3. Cardinality(sessions') <= MaxSessions
    BY <2>2, <1>3, <1>8
  <2> QED BY <2>1, <2>2, <2>3, <1>6, <1>7
<1>9. CASE ~(Cardinality(live) < MaxSessions)
  <2>1. PICK v \in live : gone = {v} /\ \A u \in live : created[v] <= created[u]
    BY <1>1, <1>9 DEF Victims
  <2>2. IsFiniteSet(live \ {v}) /\ Cardinality(live \ {v}) = Cardinality(live) - 1
    BY <1>2, FS_RemoveElement
  <2>3. /\ IsFiniteSet((live \ {v}) \cup {l})
        /\ Cardinality((live \ {v}) \cup {l}) = Cardinality(live \ {v}) + 1
    BY <2>2, <1>5, FS_AddElement
  <2>4. IsFiniteSet(sessions') /\ Cardinality(sessions') = MaxSessions
    BY <2>1, <2>2, <2>3, <1>1, <1>3, <1>4, <1>9
  <2> QED BY <2>1, <2>4, <1>1, <1>3, <1>6, <1>7
<1> QED BY <1>8, <1>9

-----------------------------------------------------------------------------
\* Every step keeps AuthInv and loses no session without a reason.
LEMMA AuthStep == AuthInv /\ [AuthNext]_authVars => AuthInv' /\ (SessionKept \/ UNCHANGED authVars)
<1> SUFFICES ASSUME AuthInv, [AuthNext]_authVars PROVE AuthInv' /\ (SessionKept \/ UNCHANGED authVars)
  OBVIOUS
<1> USE DEF AuthInv, SessionsCurrent, MintedUnderLock, StampedInThePast
<1>0. UNCHANGED sessions => SessionKept /\ (Cardinality(sessions) <= MaxSessions)'
  BY DEF SessionKept
<1>1. CASE ClockTick
  BY <1>0, <1>1, AuthConstants DEF ClockTick, AuthTypeOK, table, logins
<1>2. CASE cleanupExpiredSessions
  <2>1. sessions' \subseteq sessions
    BY <1>2 DEF cleanupExpiredSessions
  <2>2. IsFiniteSet(sessions') /\ Cardinality(sessions') <= MaxSessions
    BY <2>1, FewerSessions
  <2>3. SessionKept
    BY <1>2, AuthConstants DEF cleanupExpiredSessions, SessionKept, Expired, AuthTypeOK
  <2> QED BY <1>2, <2>1, <2>2, <2>3 DEF cleanupExpiredSessions, AuthTypeOK, logins
<1>3. ASSUME NEW p \in Password, setPasswordLocked(p), UNCHANGED <<clock, created, under, logins>>
      PROVE  /\ password' \in Password /\ changes' \in 0..MaxChanges /\ sessions' \subseteq sessions
             /\ \A t \in sessions' : under[t] = changes'
             /\ MintedUnderLock' /\ SessionKept
             /\ IsFiniteSet(sessions') /\ Cardinality(sessions') <= MaxSessions
  <2>1. CASE p = password /\ UNCHANGED <<password, changes, sessions>>
    BY <1>0, <1>3, <2>1 DEF AuthTypeOK, logins
  <2>2. CASE p # password /\ changes < MaxChanges
             /\ password' = p /\ changes' = changes + 1 /\ sessions' = {}
    <3>1. changes \in Nat /\ changes' # changes /\ changes' \in 0..MaxChanges
      BY <2>2, AuthConstants DEF AuthTypeOK
    <3>2. MintedUnderLock'
      BY <1>3 DEF setPasswordLocked, cfgMuReaders, logins
    <3>3. IsFiniteSet(sessions') /\ Cardinality(sessions') <= MaxSessions
      BY <2>2, FewerSessions
    <3> QED BY <2>2, <3>1, <3>2, <3>3 DEF SessionKept
  <2> QED BY <1>3, <2>1, <2>2 DEF setPasswordLocked
<1>4. CASE SetConfig
  <2>1. PICK p \in Password : setPasswordLocked(p)
    BY <1>4 DEF SetConfig
  <2>2. UNCHANGED <<clock, created, under, logins, cpc, shown>>
    BY <1>4 DEF SetConfig
  <2> QED BY <2>1, <2>2, <1>3 DEF AuthTypeOK, logins
<1>5. ASSUME NEW l \in Login, Post(l) \/ Compare(l) \/ Mint(l)
      PROVE AuthInv' /\ SessionKept
  <2>1. UNCHANGED <<password, changes, clock, sessions, cpc, shown>> /\ lpc[l] \in {"idle", "compare", "mint"}
    BY <1>5 DEF Post, Compare, Mint, table
  <2>2. AuthTypeOK'
    BY <1>5, <2>1, AuthConstants DEF Post, Compare, Mint, LoginAt, AuthTypeOK, table
  <2>3. \A t \in sessions : t # l
    BY <2>1
  <2>4. MintedUnderLock' /\ StampedInThePast'
    BY <1>5, <2>1, AuthConstants DEF Post, Compare, Mint, LoginAt, AuthTypeOK, table
  <2>5. \A t \in sessions : under'[t] = under[t] /\ lpc'[t] = lpc[t]
    BY <1>5, <2>3 DEF Post, Compare, Mint, LoginAt, AuthTypeOK, table
  <2> QED BY <1>0, <2>1, <2>2, <2>4, <2>5
<1>6. ASSUME NEW l \in Login, createSession(l) PROVE AuthInv' /\ SessionKept
  <2>1. /\ sessions' \subseteq sessions \cup {l} /\ l \in sessions'
        /\ IsFiniteSet(sessions') /\ Cardinality(sessions') <= MaxSessions
        /\ SessionKept
    BY <1>6, CreateSession DEF SessionKept
  <2>2. /\ lpc[l] = "insert" /\ lpc' = [lpc EXCEPT ![l] = "loggedIn"]
        /\ UNCHANGED <<password, changes, clock, created, under, typed, read, cpc, shown>>
    BY <1>6 DEF createSession, LoginAt
  <2> QED BY <2>1, <2>2 DEF AuthTypeOK
<1>7. ASSUME NEW l \in Login, Logout(l) PROVE AuthInv' /\ SessionKept
  <2>1. sessions' = sessions \ {l} /\ lpc' = [lpc EXCEPT ![l] = "loggedOut"]
        /\ UNCHANGED <<password, changes, clock, created, under, typed, read, cpc, shown>>
    BY <1>7 DEF Logout, LoginAt
  <2>2. IsFiniteSet(sessions') /\ Cardinality(sessions') <= MaxSessions
    BY <2>1, FewerSessions
  <2> QED BY <2>1, <2>2 DEF AuthTypeOK, SessionKept
<1>8. ASSUME NEW c \in Client, Ask(c) \/ validateSession(c) \/ Answered(c)
      PROVE AuthInv' /\ SessionKept
  <2>1. UNCHANGED <<password, changes, clock, table, logins>>
    BY <1>8 DEF Ask, validateSession, Answered
  <2>2. cpc' \in [Client -> {"idle", "validate", "expiry", "allowed", "denied"}]
        /\ shown' \in [Client -> Login \cup {None}]
    BY <1>8 DEF Ask, validateSession, Answered, ClientAt, AuthTypeOK
  <2> QED BY <1>0, <2>1, <2>2 DEF AuthTypeOK, table, logins
<1>9. ASSUME NEW c \in Client, CheckExpiry(c) PROVE AuthInv' /\ SessionKept
  <2>1. sessions' \subseteq sessions /\ UNCHANGED <<password, changes, clock, created, under, logins, shown>>
    BY <1>9 DEF CheckExpiry
  <2>2. IsFiniteSet(sessions') /\ Cardinality(sessions') <= MaxSessions
    BY <2>1, FewerSessions
  <2>3. SessionKept
    BY <1>9 DEF CheckExpiry, SessionKept
  <2>4. cpc' \in [Client -> {"idle", "validate", "expiry", "allowed", "denied"}]
    BY <1>9 DEF CheckExpiry, ClientAt, AuthTypeOK
  <2> QED BY <2>1, <2>2, <2>3, <2>4 DEF AuthTypeOK, logins
<1>10. ASSUME NEW c \in Client, Settings(c) PROVE AuthInv' /\ SessionKept
  <2>1. PICK p \in Password : setPasswordLocked(p)
    BY <1>10 DEF Settings
  <2>2. UNCHANGED <<clock, created, under, logins>>
    BY <1>10 DEF Settings
  <2>3. cpc' \in [Client -> {"idle", "validate", "expiry", "allowed", "denied"}]
        /\ shown' \in [Client -> Login \cup {None}]
    BY <1>10 DEF Settings, ClientAt, AuthTypeOK
  <2> QED BY <2>1, <2>2, <2>3, <1>3 DEF AuthTypeOK, logins
<1>11. CASE UNCHANGED authVars
  BY <1>0, <1>11 DEF authVars, AuthTypeOK
<1> QED BY <1>1, <1>2, <1>4, <1>5, <1>6, <1>7, <1>8, <1>9, <1>10, <1>11 DEF AuthNext

\* Whatever logins, requests, reloads and the cleanup do in whatever order, every session in
\* the table is of the password in force and the table is within its limit (handleAuth,
\* createSession, setPasswordLocked).
THEOREM SessionsAreCurrent == AuthSpec => []SessionsCurrent
<1>1. AuthInv => SessionsCurrent
  BY DEF AuthInv
<1> QED BY <1>1, AuthInvInit, AuthStep, PTL DEF AuthSpec

\* And no session is lost but to expiry, a new password, its own logout or, at the limit, a
\* login when no session is older.
THEOREM AuthIsSound == AuthSpec => AuthSound
<1>1. AuthInv => SessionsCurrent
  BY DEF AuthInv
<1>2. AuthInv /\ AuthInv' /\ (SessionKept \/ UNCHANGED authVars)
        => [SessionsCurrent' /\ SessionKept]_authVars
  BY DEF AuthInv
<1> QED BY <1>1, <1>2, AuthInvInit, AuthStep, PTL DEF AuthSpec, AuthSound

=============================================================================
