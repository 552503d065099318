------------------------- MODULE SubscriptionRefresh -------------------------
(***************************************************************************)
(* subscription/manager.go with its callers: the subscription settings PUT *)
(* of monitor/server.go, manual refreshes and status polls.  One worker    *)
(* fetches and applies; callers queue at most one refresh behind the       *)
(* running one and wait for it.  Three copies of the settings are kept:    *)
(* the file's, the runtime's (BoxManager's cfg) and the worker's own.      *)
(*                                                                         *)
(* One action is one section of Manager.mu, except updateConfig, which     *)
(* writes the file in its section and is two actions (Mu says the section  *)
(* is free).  The refresh transaction holds the runtime's lifecycle lock   *)
(* from its check to its end, so settings are not published in between;    *)
(* the worker's own copy may change.                                       *)
(***************************************************************************)
EXTENDS Integers

CONSTANTS Editor,          \* clients that PUT settings
          Refresher,       \* clients that ask for a refresh
          Setting,         \* subscription settings; 0 has no URLs
          Timed,           \* the settings with periodic refresh on
          Call, NoCall,    \* refreshCall objects
          MaxEdits         \* bound: settings PUTs

ASSUME RefreshConstants ==
  /\ 0 \in Setting /\ Timed \subseteq Setting \ {0} /\ NoCall \notin Call /\ MaxEdits \in Nat

\* Allocation never fails: there is a call besides the running one and the callers'.
ASSUME EnoughCalls ==
  \A f \in [Editor \cup Refresher -> Call \cup {NoCall}], a \in Call \cup {NoCall} :
    \E c \in Call : c # a /\ \A p \in Editor \cup Refresher : c # f[p]

VARIABLES
  disk, rt,          \* settings in the file and in the runtime
  base, version,     \* the worker's copy and its number
  waiting, baseline, \* pendingSettings and pendingBaseline
  updates,           \* a signal is in the updates channel
  timer,             \* the timer is armed
  pending, queue,    \* Manager.pending; what is in the requests channel
  active,            \* Manager.active
  calls,             \* calls[c]: version, outcome
  stopped, worker,   \* Manager.stopped; where the worker is
  job,               \* the worker's locals: call, cfg, startingConfig, version, rollback
  lock,              \* the worker's transaction holds the lifecycle lock
  pc, arg,           \* where a caller is; the settings it brings
  mine, want,        \* the call it waits for; the version it has to see
  edits              \* what is left of MaxEdits

settings == <<disk, rt>>
private == <<base, version, waiting, baseline>>
calling == <<pending, queue, active, calls>>
callers == <<pc, arg, mine, want, edits>>
working == <<worker, job, lock>>
vars == <<settings, private, updates, timer, calling, stopped, working, callers>>

Caller == Editor \cup Refresher
NewCall(v) == [version |-> v, outcome |-> "none"]
NoJob == [call |-> NoCall, cfg |-> 0, start |-> 0, version |-> 0, old |-> 0]

Init ==
  /\ rt \in Setting /\ disk = rt /\ base = rt /\ baseline = rt
  /\ version = 0 /\ waiting = FALSE /\ updates = FALSE /\ timer = FALSE
  /\ pending = NoCall /\ queue = NoCall /\ active = NoCall
  /\ calls = [c \in Call |-> NewCall(0)]
  /\ stopped = FALSE /\ worker = "sync" /\ lock = FALSE
  /\ job = NoJob
  /\ pc = [p \in Caller |-> "idle"] /\ arg = [p \in Caller |-> 0]
  /\ mine = [p \in Caller |-> NoCall] /\ want = [p \in Caller |-> 0]
  /\ edits = MaxEdits

Goto(p, l) == pc' = [pc EXCEPT ![p] = l]

\* Nobody is inside Manager.mu.
Mu == \A p \in Caller : pc[p] # "save"

\* A call object nobody refers to.
Fresh == CHOOSE c \in Call : c \notin {pending, queue, active, job.call} \cup {mine[p] : p \in Caller}

\* A call object that nobody refers to any more is gone.
Collect(cs, live) == [c \in Call |-> IF c \in live THEN cs[c] ELSE NewCall(0)]

-----------------------------------------------------------------------------
(* Sections of Manager.mu used from several places. *)

\* Seeded fault: the worker is not told that its settings changed.
SyncQuietly ==
  /\ Mu
  /\ UNCHANGED updates
  /\ IF stopped \/ (waiting /\ rt = baseline /\ rt # base) THEN UNCHANGED private
     ELSE /\ base' = rt /\ waiting' = FALSE /\ baseline' = rt
          /\ version' = IF rt = base THEN version ELSE version + 1

\* syncRuntimeConfig.
Sync ==
  /\ Mu
  /\ \/ stopped /\ UNCHANGED <<private, updates>>
     \/ /\ ~stopped /\ rt = base
        /\ waiting' = FALSE /\ baseline' = rt
        /\ UNCHANGED <<base, version, updates>>
     \/ /\ ~stopped /\ rt # base /\ waiting /\ rt = baseline
        /\ UNCHANGED <<private, updates>>
     \/ /\ ~stopped /\ rt # base /\ ~(waiting /\ rt = baseline)
        /\ base' = rt /\ waiting' = FALSE /\ baseline' = rt
        /\ version' = version + 1 /\ updates' = TRUE

\* Seeded fault: any running refresh will do, whatever settings it was started with.
JoinsAny == IF pending # NoCall THEN pending ELSE active

\* The call a request may share: the queued one, or the running one if it has the
\* current settings.
Joins ==
  IF pending # NoCall THEN pending
  ELSE IF active # NoCall /\ calls[active].version = version THEN active ELSE NoCall

\* requestRefresh after its sync, not stopped and with URLs: c is the caller's call.
Enqueue(c) ==
  \/ /\ Joins # NoCall /\ c = Joins
     /\ calls' = IF c = pending THEN [calls EXCEPT ![c].version = version] ELSE calls
     /\ UNCHANGED <<pending, queue>>
  \/ /\ Joins = NoCall /\ c = Fresh /\ queue = NoCall
     /\ calls' = [calls EXCEPT ![c] = NewCall(version)]
     /\ pending' = c /\ queue' = c

-----------------------------------------------------------------------------
(* Callers. *)

\* handleSubscriptionConfig PUT, first part: save and publish under LockSettings.
Publish(p, s) ==
  /\ pc[p] = "idle" /\ p \in Editor /\ ~lock /\ edits > 0
  /\ edits' = edits - 1
  /\ disk' = s /\ rt' = s
  /\ arg' = [arg EXCEPT ![p] = s]
  /\ Goto(p, "update")
  /\ UNCHANGED <<private, updates, timer, calling, stopped, working, mine, want>>

\* updateConfig: the file is written, or the manager is stopped or the write fails.
UpdateSave(p) ==
  /\ pc[p] = "update" /\ Mu
  /\ \/ Goto(p, "idle") /\ arg' = [arg EXCEPT ![p] = 0] /\ UNCHANGED disk
     \/ ~stopped /\ Goto(p, "save") /\ disk' = arg[p] /\ UNCHANGED arg
  /\ UNCHANGED <<rt, private, updates, timer, calling, stopped, working, mine, want, edits>>

\* updateConfig: the worker's copy, and the runtime's at this moment.
UpdateConfig(p) ==
  /\ pc[p] = "save"
  /\ base' = arg[p] /\ version' = version + 1
  /\ waiting' = (rt # arg[p]) /\ baseline' = rt
  /\ updates' = TRUE
  /\ Goto(p, IF arg[p] = 0 THEN "idle" ELSE "sync") /\ arg' = [arg EXCEPT ![p] = 0]
  /\ UNCHANGED <<settings, timer, calling, stopped, working, mine, want, edits>>

\* RefreshNowContext, a section for the sync and one for the rest.
BeginRefresh(p) ==
  /\ pc[p] = "idle" /\ p \in Refresher
  /\ Goto(p, "sync")
  /\ UNCHANGED <<settings, private, updates, timer, calling, stopped, working, arg, mine, want, edits>>

RequestSync(p) ==
  /\ pc[p] = "sync" /\ Sync
  /\ Goto(p, "request")
  /\ UNCHANGED <<settings, timer, calling, stopped, working, arg, mine, want, edits>>

RequestRefresh(p) ==
  /\ pc[p] = "request" /\ Mu
  /\ \/ /\ stopped \/ base = 0
        /\ Goto(p, "idle") /\ UNCHANGED <<calling, mine, want>>
     \/ /\ ~stopped /\ base # 0
        /\ \E c \in Call : Enqueue(c) /\ mine' = [mine EXCEPT ![p] = c]
        /\ want' = [want EXCEPT ![p] = version]
        /\ Goto(p, "wait") /\ UNCHANGED active
  /\ UNCHANGED <<settings, private, updates, timer, stopped, working, arg, edits>>

\* The wait ends: the call is done or the manager stopped (Return), or the caller's
\* context ends (GiveUp).
Leave(p) ==
  /\ pc[p] = "wait"
  /\ Goto(p, "idle") /\ mine' = [mine EXCEPT ![p] = NoCall] /\ want' = [want EXCEPT ![p] = 0]
  /\ calls' = Collect(calls, {pending, active} \cup {mine[q] : q \in Caller \ {p}})
  /\ UNCHANGED <<settings, private, updates, timer, pending, queue, active, stopped, working, arg, edits>>

Return(p) == Leave(p) /\ (stopped \/ calls[mine[p]].outcome # "none")
GiveUp(p) == Leave(p)

\* Status, polled by the dashboard.
Poll == Sync /\ UNCHANGED <<settings, timer, calling, stopped, working, callers>>

\* Stop, which then waits for the worker to be gone.
Stop ==
  /\ ~stopped /\ Mu
  /\ stopped' = TRUE
  /\ UNCHANGED <<settings, private, updates, timer, calling, working, callers>>

-----------------------------------------------------------------------------
(* The worker: refreshLoop. *)

\* resetTimer: a sync, then the timer by the worker's settings.
ResetSync ==
  /\ worker = "sync" /\ Sync
  /\ worker' = "rearm"
  /\ UNCHANGED <<settings, timer, calling, stopped, job, lock, callers>>

ResetTimer ==
  /\ worker = "rearm" /\ Mu
  /\ timer' = (~stopped /\ base \in Timed)
  /\ worker' = "select"
  /\ UNCHANGED <<settings, private, updates, calling, stopped, job, lock, callers>>

TakeUpdate ==
  /\ worker = "select" /\ updates
  /\ updates' = FALSE /\ worker' = "sync"
  /\ UNCHANGED <<settings, private, timer, calling, stopped, job, lock, callers>>

\* A tick: sync, look whether refreshes are still wanted, then requestRefresh.
Tick ==
  /\ worker = "select" /\ timer /\ Sync
  /\ timer' = FALSE /\ worker' = "tick"
  /\ UNCHANGED <<settings, calling, stopped, job, lock, callers>>

TickCheck ==
  /\ worker = "tick" /\ Mu
  /\ worker' = IF base \in Timed THEN "ticksync" ELSE "sync"
  /\ UNCHANGED <<settings, private, updates, timer, calling, stopped, job, lock, callers>>

TickSync ==
  /\ worker = "ticksync" /\ Sync
  /\ worker' = "tickrequest"
  /\ UNCHANGED <<settings, timer, calling, stopped, job, lock, callers>>

TickRefresh ==
  /\ worker = "tickrequest" /\ Mu
  /\ \/ (stopped \/ base = 0) /\ UNCHANGED calling
     \/ ~stopped /\ base # 0 /\ UNCHANGED active /\ \E c \in Call : Enqueue(c)
  /\ worker' = "select"
  /\ UNCHANGED <<settings, private, updates, timer, stopped, job, lock, callers>>

TakeRequest ==
  /\ worker = "select" /\ queue # NoCall
  /\ queue' = NoCall
  /\ job' = [job EXCEPT !.call = queue]
  /\ worker' = "begin"
  /\ UNCHANGED <<settings, private, updates, timer, pending, active, calls, stopped, lock, callers>>

\* The taken call becomes the active one, with the settings of this moment.
BeginWork ==
  /\ worker = "begin" /\ Mu
  /\ active' = job.call /\ pending' = NoCall
  /\ calls' = [calls EXCEPT ![job.call].version = version]
  /\ job' = [job EXCEPT !.cfg = base, !.version = version]
  /\ worker' = "start"
  /\ UNCHANGED <<settings, private, updates, timer, queue, stopped, lock, callers>>

\* doRefresh: the runtime's settings are read in a section of their own.
ReadStart ==
  /\ worker = "start"
  /\ job' = [job EXCEPT !.start = rt]
  /\ worker' = "fetch"
  /\ UNCHANGED <<settings, private, updates, timer, calling, stopped, lock, callers>>

\* A provider fails or answers nothing, the fetch is cancelled, or there is no runtime.
FetchFails ==
  /\ worker = "fetch"
  /\ worker' = "failed"
  /\ UNCHANGED <<settings, private, updates, timer, calling, stopped, job, lock, callers>>

\* ReloadWithCurrentConfig's update callback: the transaction begins if nothing newer is
\* known.
BeginApply ==
  /\ worker = "fetch" /\ ~stopped /\ Mu
  /\ \/ /\ job.version = version /\ rt \in {job.cfg, job.start}
        /\ worker' = "apply" /\ lock' = TRUE /\ job' = [job EXCEPT !.old = rt]
     \/ /\ ~(job.version = version /\ rt \in {job.cfg, job.start})
        /\ worker' = "failed" /\ UNCHANGED <<lock, job>>
  /\ UNCHANGED <<settings, private, updates, timer, calling, stopped, callers>>

ReloadFails ==
  /\ worker = "apply"
  /\ lock' = FALSE /\ worker' = "failed"
  /\ UNCHANGED <<settings, private, updates, timer, calling, stopped, job, callers>>

\* The reload commits; the cache file is still to be written.
Commit ==
  /\ worker = "apply"
  /\ rt' = job.cfg /\ worker' = "persist"
  /\ UNCHANGED <<disk, private, updates, timer, calling, stopped, job, lock, callers>>

Persist ==
  /\ worker = "persist"
  /\ lock' = FALSE /\ worker' = "succeeded"
  /\ UNCHANGED <<settings, private, updates, timer, calling, stopped, job, callers>>

\* The write fails: the old settings are reloaded, unless that fails as well.
PersistFails ==
  /\ worker = "persist"
  /\ rt' \in {job.old, rt}
  /\ lock' = FALSE /\ worker' = "failed"
  /\ UNCHANGED <<disk, private, updates, timer, calling, stopped, job, callers>>

\* Seeded fault: the queued call is forgotten with the finished one.
FinishForgetsPending ==
  /\ worker \in {"succeeded", "failed"} /\ Mu
  /\ calls' = Collect([calls EXCEPT ![active].outcome = IF worker = "succeeded" THEN "ok" ELSE "error"],
                      {pending} \cup {mine[p] : p \in Caller})
  /\ active' = NoCall /\ pending' = NoCall
  /\ job' = NoJob
  /\ worker' = "sync"
  /\ UNCHANGED <<settings, private, updates, timer, queue, stopped, lock, callers>>

\* The outcome is published; resetTimer follows.
Finish ==
  /\ worker \in {"succeeded", "failed"} /\ Mu
  /\ calls' = Collect([calls EXCEPT ![active].outcome = IF worker = "succeeded" THEN "ok" ELSE "error"],
                      {pending} \cup {mine[p] : p \in Caller})
  /\ active' = NoCall
  /\ job' = NoJob
  /\ worker' = "sync"
  /\ UNCHANGED <<settings, private, updates, timer, pending, queue, stopped, lock, callers>>

\* Seeded fault: the worker leaves its queued call behind.
ExitSilently ==
  /\ worker = "select" /\ stopped /\ Mu
  /\ worker' = "gone" /\ timer' = FALSE
  /\ UNCHANGED <<settings, private, updates, calling, stopped, job, lock, callers>>

\* The loop ends: the queued call fails.
Exit ==
  /\ worker = "select" /\ stopped /\ Mu
  /\ worker' = "gone" /\ timer' = FALSE
  /\ \/ pending = NoCall /\ UNCHANGED <<calls, pending>>
     \/ /\ pending # NoCall /\ pending' = NoCall
        /\ calls' = Collect([calls EXCEPT ![pending].outcome = "error"], {mine[p] : p \in Caller})
  /\ UNCHANGED <<settings, private, updates, queue, active, stopped, job, lock, callers>>

Worker ==
  \/ ResetSync \/ ResetTimer \/ TakeUpdate \/ Tick \/ TickCheck \/ TickSync \/ TickRefresh
  \/ TakeRequest \/ BeginWork \/ ReadStart \/ FetchFails \/ BeginApply
  \/ ReloadFails \/ Commit \/ Persist \/ PersistFails \/ Finish \/ Exit
Steps(p) == UpdateSave(p) \/ UpdateConfig(p) \/ RequestSync(p) \/ RequestRefresh(p) \/ Return(p)

Next ==
  \/ Worker \/ Stop \/ Poll
  \/ \E p \in Caller : \/ \E s \in Setting : Publish(p, s)
                       \/ BeginRefresh(p) \/ Steps(p) \/ GiveUp(p)

Spec == Init /\ [][Next]_vars

\* The worker and every caller keep running; a fetch ends because its requests have
\* timeouts.
FairSpec == Spec /\ WF_vars(Worker) /\ \A p \in Caller : WF_vars(Steps(p))

-----------------------------------------------------------------------------
(* Properties. *)

TypeOK ==
  /\ {disk, rt, base, baseline} \subseteq Setting
  /\ version \in Nat /\ edits \in 0..MaxEdits
  /\ {waiting, updates, timer, stopped, lock} \subseteq BOOLEAN
  /\ {pending, queue, active} \subseteq Call \cup {NoCall}
  /\ calls \in [Call -> [version : Nat, outcome : {"none", "ok", "error"}]]
  /\ worker \in {"select", "sync", "rearm", "tick", "ticksync", "tickrequest", "begin", "start",
                 "fetch", "apply", "persist", "succeeded", "failed", "gone"}
  /\ job \in [call : Call \cup {NoCall}, cfg : Setting, start : Setting, version : Nat, old : Setting]
  /\ pc \in [Caller -> {"idle", "update", "save", "sync", "request", "wait"}]
  /\ arg \in [Caller -> Setting] /\ mine \in [Caller -> Call \cup {NoCall}]
  /\ want \in [Caller -> Nat]

\* requestRefresh sends to the requests channel while it holds Manager.mu: "One pending
\* call; the channel is necessarily empty" (subscription/manager.go:255).  A full channel
\* would stop the worker and every caller.  (Nothing is sent once the manager is stopped.)
SendNeverBlocks == TypeOK /\ (~stopped /\ pending = NoCall => queue = NoCall)

\* A caller that is told its refresh succeeded was served by a refresh that took its
\* settings no earlier than the caller's: requestRefresh shares the running refresh only
\* while the settings have not changed since.
RefreshUsesCurrent ==
  \A p \in Caller : pc[p] = "wait" /\ calls[mine[p]].outcome = "ok" => calls[mine[p]].version >= want[p]

\* Whenever the worker waits with no signal and no refresh to take, its timer is armed
\* exactly if its settings ask for periodic refreshes: no order of settings changes,
\* ticks and refreshes loses the timer or leaves an old one running.
TimerFollowsSettings ==
  worker = "select" /\ ~stopped /\ ~updates /\ queue = NoCall => timer = (base \in Timed)

\* No call stays queued or running for ever: refreshLoop publishes an outcome for it, also
\* when it is stopped with a call in the channel, so nobody waits for a call that nobody
\* serves; and Stop returns, which waits for the worker to close loopDone.
CallsFinish ==
  /\ \A c \in Call : c \in {pending, active} ~> c \notin {pending, active}
  /\ stopped ~> worker = "gone"

\* The transaction of a refresh does not replace settings that a PUT has published and
\* not yet handed to the worker: "Do not overwrite that newer publication in the narrow
\* interval between these two operations" (subscription/manager.go:445).
PublicationKept ==
  [][worker = "apply" /\ worker' = "persist" /\ rt' # rt
       => \A p \in Editor : pc[p] = "update" => arg[p] # rt]_vars
=============================================================================
