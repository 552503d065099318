----------------------------- MODULE ProbeMonitor -----------------------------
(***************************************************************************)
(* Health probing in monitor/manager.go: the gate that lets one sweep run  *)
(* at a time and turns triggers that arrive meanwhile into one more sweep  *)
(* (probeAllNodes, runProbeSweep), the sharing of one probe callback per   *)
(* node by all its callers (waitProbe), the result that is kept            *)
(* (applyProbeResult) and the progress counters of the dashboard.          *)
(*                                                                         *)
(* A node is an entry object: a reload clears the map and registers new    *)
(* objects, while a sweep goes on with the old ones.  One action is one    *)
(* section of probeGate, of Manager.mu or of entry.mu, or one atomic       *)
(* counter.  The four resets and the active flag at the start of a sweep   *)
(* are one action: no other sweep runs then, which OneSweep checks.  The   *)
(* worker limit is at least 8 and never binds on the node sets used here.  *)
(***************************************************************************)
EXTENDS Integers, FiniteSets

CONSTANTS Entry,           \* entry objects, each registered at most once
          Probed,          \* entries of nodes for which there is a probe target
          Trigger,         \* goroutines that call probeAllNodes
          Client,          \* manual probes
          MaxRuns,         \* bound: callbacks started per entry
          MaxTriggers      \* bound: calls of probeAllNodes

ASSUME ProbeConstants ==
  /\ Entry # {} /\ IsFiniteSet(Entry) /\ Probed \subseteq Entry /\ MaxRuns \in Nat /\ MaxTriggers \in Nat
  /\ Client \cap (Trigger \X Entry) = {}

VARIABLES
  known, nodes, wired,     \* entries ever registered; Manager.nodes; those with a probe function
  run, gen, cut,           \* generation of the running callback (0: none), probeGeneration,
                           \* and whether the running callback's context was cancelled
  results,                 \* results[e][g]: what callback g of e returned
  callbacks,               \* callbacks running, per entry
  checked, avail,          \* initialCheckDone and available
  shown,                   \* history: generation of the result last applied
  sweepRunning, rerun,     \* sweepRunning and rerunRequested
  asked, swept,            \* history: nodes at the last trigger; nodes of the last sweep
  tpc, todo,               \* where a sweep is; entries it has not come to
  active, total, done, ok, fail,   \* the progress counters
  pc, at, ctx, got,        \* a caller of waitProbe: place, entry, context, run it waits for
  stopped, triggers        \* Manager.ctx is cancelled; what is left of MaxTriggers

registry == <<known, nodes, wired>>
runs == <<run, gen, cut, results, callbacks>>
health == <<checked, avail, shown>>
gate == <<sweepRunning, rerun, asked, triggers>>
progress == <<active, total, done, ok, fail>>
sweep == <<tpc, todo, swept>>
probing == <<pc, at, ctx, got>>
vars == <<registry, runs, health, gate, progress, sweep, probing, stopped>>

Worker == Trigger \X Entry
Prober == Worker \cup Client
NoWait == [gen |-> 0, started |-> FALSE, res |-> "none"]

Init ==
  /\ known = {} /\ nodes = {} /\ wired = {}
  /\ run = [e \in Entry |-> 0] /\ gen = [e \in Entry |-> 0] /\ cut = [e \in Entry |-> FALSE]
  /\ results = [e \in Entry |-> [g \in 1..MaxRuns |-> "running"]]
  /\ callbacks = [e \in Entry |-> 0]
  /\ checked = [e \in Entry |-> FALSE] /\ avail = [e \in Entry |-> FALSE] /\ shown = [e \in Entry |-> 0]
  /\ sweepRunning = FALSE /\ rerun = FALSE /\ asked = {} /\ swept = {} /\ triggers = MaxTriggers
  /\ tpc = [t \in Trigger |-> "idle"] /\ todo = [t \in Trigger |-> {}]
  /\ active = FALSE /\ total = 0 /\ done = 0 /\ ok = 0 /\ fail = 0
  /\ pc = [p \in Prober |-> "idle"] /\ ctx = [p \in Prober |-> "live"]
  /\ at = [p \in Prober |-> IF p \in Worker THEN p[2] ELSE CHOOSE e \in Entry : TRUE]
  /\ got = [p \in Prober |-> NoWait]
  /\ stopped = FALSE

-----------------------------------------------------------------------------
(* The registry: pool members register, then hand over their probe function. *)

Register(e) ==
  /\ e \notin known
  /\ known' = known \cup {e} /\ nodes' = nodes \cup {e}
  /\ UNCHANGED <<wired, runs, health, gate, progress, sweep, probing, stopped>>

SetProbe(e) ==
  /\ e \in (known \cap Probed) \ wired
  /\ wired' = wired \cup {e}
  /\ UNCHANGED <<known, nodes, runs, health, gate, progress, sweep, probing, stopped>>

ClearNodes ==
  /\ nodes # {} /\ nodes' = {}
  /\ UNCHANGED <<known, wired, runs, health, gate, progress, sweep, probing, stopped>>

Stop ==
  /\ ~stopped /\ stopped' = TRUE
  /\ UNCHANGED <<registry, runs, health, gate, progress, sweep, probing>>

-----------------------------------------------------------------------------
(* probeAllNodes and runProbeSweep. *)

\* Seeded fault: a trigger during a sweep is dropped.
BeginSweepDropping(t) ==
  /\ tpc[t] = "idle" /\ ~stopped /\ triggers > 0
  /\ triggers' = triggers - 1 /\ asked' = nodes
  /\ sweepRunning' = TRUE
  /\ tpc' = IF sweepRunning THEN tpc ELSE [tpc EXCEPT ![t] = "snap"]
  /\ UNCHANGED <<registry, runs, health, rerun, progress, todo, swept, probing, stopped>>

\* A trigger starts a sweep, or asks the running one for another pass.
BeginSweep(t) ==
  /\ tpc[t] = "idle" /\ ~stopped /\ triggers > 0
  /\ triggers' = triggers - 1 /\ asked' = nodes
  /\ \/ sweepRunning /\ rerun' = TRUE /\ UNCHANGED <<sweepRunning, tpc>>
     \/ ~sweepRunning /\ sweepRunning' = TRUE /\ tpc' = [tpc EXCEPT ![t] = "snap"] /\ UNCHANGED rerun
  /\ UNCHANGED <<registry, runs, health, progress, todo, swept, probing, stopped>>

\* The entries of this sweep; the counters start again.
Snapshot(t) ==
  /\ tpc[t] = "snap"
  /\ swept' = IF stopped THEN swept ELSE nodes
  /\ IF stopped \/ nodes = {}
     THEN tpc' = [tpc EXCEPT ![t] = "drain"] /\ UNCHANGED <<todo, progress>>
     ELSE /\ tpc' = [tpc EXCEPT ![t] = "spawn"] /\ todo' = [todo EXCEPT ![t] = nodes]
          /\ active' = TRUE /\ total' = Cardinality(nodes) /\ done' = 0 /\ ok' = 0 /\ fail' = 0
  /\ UNCHANGED <<registry, runs, health, gate, probing, stopped>>

\* The probe function is read: an entry that has one gets a goroutine with a context of its
\* own, the others are marked in a section of their own (Mark).
Spawn(t, e) ==
  /\ tpc[t] = "spawn" /\ e \in todo[t]
  /\ todo' = [todo EXCEPT ![t] = @ \ {e}]
  /\ pc' = [pc EXCEPT ![<<t, e>>] = IF e \in wired THEN "call" ELSE "mark"]
  /\ UNCHANGED <<registry, runs, health, gate, progress, tpc, swept, at, ctx, got, stopped>>

\* The end of the manager is seen in the loop: the rest is not probed.
AbortSweep(t) ==
  /\ tpc[t] = "spawn" /\ stopped /\ todo[t] # {}
  /\ tpc' = [tpc EXCEPT ![t] = "aborted"] /\ todo' = [todo EXCEPT ![t] = {}]
  /\ UNCHANGED <<registry, runs, health, gate, progress, swept, probing, stopped>>

\* wg.Wait, then the deferred reset of the flag.
EndSweep(t) ==
  /\ tpc[t] \in {"spawn", "aborted"} /\ todo[t] = {}
  /\ \A e \in Entry : pc[<<t, e>>] = "idle"
  /\ active' = FALSE
  /\ tpc' = [tpc EXCEPT ![t] = "drain"]
  /\ UNCHANGED <<registry, runs, health, gate, total, done, ok, fail, todo, swept, probing, stopped>>

Drain(t) ==
  /\ tpc[t] = "drain"
  /\ rerun' = FALSE
  /\ \/ rerun /\ ~stopped /\ tpc' = [tpc EXCEPT ![t] = "snap"] /\ UNCHANGED sweepRunning
     \/ ~(rerun /\ ~stopped) /\ tpc' = [tpc EXCEPT ![t] = "idle"] /\ sweepRunning' = FALSE
  /\ UNCHANGED <<registry, runs, health, asked, triggers, progress, todo, swept, probing, stopped>>

-----------------------------------------------------------------------------
(* Callers of waitProbe: a sweep's goroutines and Probe. *)

\* Manager.Probe: look the node up.
Probe(c, e) ==
  /\ pc[c] = "idle" /\ e \in nodes
  /\ pc' = [pc EXCEPT ![c] = "call"] /\ at' = [at EXCEPT ![c] = e]
  /\ UNCHANGED <<registry, runs, health, gate, progress, sweep, ctx, got, stopped>>

\* Seeded fault: a node whose result is not kept is not counted as done.
LeaveUncounted(p) ==
  /\ pc' = [pc EXCEPT ![p] = IF pc[p] \in {"tally", "mark"} THEN "count" ELSE "idle"]
  /\ got' = [got EXCEPT ![p] = NoWait]
  /\ ctx' = [ctx EXCEPT ![p] = "live"]

\* Where a caller goes when it has no result to apply.
Leave(p) ==
  /\ pc' = [pc EXCEPT ![p] = IF p \in Worker THEN "count" ELSE "idle"]
  /\ got' = [got EXCEPT ![p] = NoWait]
  /\ ctx' = [ctx EXCEPT ![p] = "live"]

\* The caller's context ends: its deadline, its client, or the manager.
EndContext(p, why) ==
  /\ pc[p] \in {"call", "wait"} /\ ctx[p] = "live"
  /\ why = "cancelled" => stopped \/ p \in Client
  /\ ctx' = [ctx EXCEPT ![p] = why]
  /\ cut' = IF pc[p] = "wait" /\ got[p].started /\ why = "cancelled" /\ run[at[p]] = got[p].gen
            THEN [cut EXCEPT ![at[p]] = TRUE] ELSE cut
  /\ UNCHANGED <<registry, run, gen, results, callbacks, health, gate, progress, sweep, pc, at, got, stopped>>

\* waitProbe up to its select: nothing, a new run or the running one.
Call(p) ==
  LET e == at[p] IN
  /\ pc[p] = "call"
  /\ \/ /\ ctx[p] # "live" \/ e \notin wired
        /\ Leave(p) /\ UNCHANGED runs
     \/ /\ ctx[p] = "live" /\ e \in wired /\ run[e] = 0 /\ gen[e] < MaxRuns
        /\ gen' = [gen EXCEPT ![e] = @ + 1] /\ run' = [run EXCEPT ![e] = gen[e] + 1]
        /\ cut' = [cut EXCEPT ![e] = FALSE] /\ callbacks' = [callbacks EXCEPT ![e] = @ + 1]
        /\ got' = [got EXCEPT ![p] = [gen |-> gen[e] + 1, started |-> TRUE, res |-> "none"]]
        /\ pc' = [pc EXCEPT ![p] = "wait"] /\ UNCHANGED <<results, ctx>>
     \/ /\ ctx[p] = "live" /\ e \in wired /\ run[e] # 0
        /\ got' = [got EXCEPT ![p] = [gen |-> run[e], started |-> FALSE, res |-> "none"]]
        /\ pc' = [pc EXCEPT ![p] = "wait"] /\ UNCHANGED <<runs, ctx>>
  /\ UNCHANGED <<registry, health, gate, progress, sweep, at, stopped>>

\* The callback returns; only one whose context was cancelled says so.
FinishRun(e) ==
  /\ run[e] # 0
  /\ \E r \in {"ok", "err"} \cup (IF cut[e] THEN {"cancelled"} ELSE {}) :
       results' = [results EXCEPT ![e][run[e]] = r]
  /\ run' = [run EXCEPT ![e] = 0] /\ cut' = [cut EXCEPT ![e] = FALSE]
  /\ callbacks' = [callbacks EXCEPT ![e] = @ - 1]
  /\ UNCHANGED <<registry, gen, health, gate, progress, sweep, probing, stopped>>

\* The caller's part in a result: res, kept if it is authoritative and no cancellation.
Take(p, res, authoritative) ==
  \/ /\ authoritative /\ res # "cancelled"
     /\ pc' = [pc EXCEPT ![p] = "apply"] /\ got' = [got EXCEPT ![p].res = res]
     /\ UNCHANGED ctx
  \/ ~(authoritative /\ res # "cancelled") /\ Leave(p)

\* Seeded faults: a caller that gives up forgets the run it started; a caller waits for
\* the callback alone.
EndWaitForgetting(p) ==
  /\ pc[p] = "wait" /\ ctx[p] # "live"
  /\ Take(p, "err", got[p].started)
  /\ run' = [run EXCEPT ![at[p]] = 0]
  /\ UNCHANGED <<registry, gen, cut, results, callbacks, health, gate, progress, sweep, at, stopped>>

EndWaitWithCallback(p) ==
  /\ pc[p] = "wait" /\ results[at[p]][got[p].gen] # "running"
  /\ Take(p, results[at[p]][got[p].gen], TRUE)
  /\ UNCHANGED <<registry, runs, health, gate, progress, sweep, at, stopped>>

\* The select of waitProbe.
EndWait(p) ==
  LET r == results[at[p]][got[p].gen] IN
  /\ pc[p] = "wait"
  /\ \/ ctx[p] # "live" /\ Take(p, IF ctx[p] = "cancelled" THEN "cancelled" ELSE "err", got[p].started)
     \/ ctx[p] = "live" /\ r # "running" /\ Take(p, r, TRUE)
  /\ UNCHANGED <<registry, runs, health, gate, progress, sweep, at, stopped>>

\* Seeded fault: every result is applied.
CurrentAlways(p) == TRUE

\* The result belongs to the latest run of its entry.
Current(p) == got[p].gen = gen[at[p]]

\* applyProbeResult.
Apply(p) ==
  LET e == at[p] IN
  /\ pc[p] = "apply"
  /\ \/ /\ ~Current(p)
        /\ Leave(p) /\ UNCHANGED health
     \/ /\ Current(p)
        /\ checked' = [checked EXCEPT ![e] = TRUE] /\ avail' = [avail EXCEPT ![e] = (got[p].res = "ok")]
        /\ shown' = [shown EXCEPT ![e] = got[p].gen]
        /\ \/ p \in Client /\ Leave(p)
           \/ p \in Worker /\ pc' = [pc EXCEPT ![p] = "tally"] /\ UNCHANGED <<got, ctx>>
  /\ UNCHANGED <<registry, runs, gate, progress, sweep, at, stopped>>

\* A node without a probe function is taken as available.
Mark(p) ==
  /\ pc[p] = "mark"
  /\ checked' = [checked EXCEPT ![at[p]] = TRUE] /\ avail' = [avail EXCEPT ![at[p]] = TRUE]
  /\ ok' = ok + 1
  /\ Leave(p)
  /\ UNCHANGED <<registry, runs, shown, gate, active, total, done, fail, sweep, at, stopped>>

Tally(p) ==
  /\ pc[p] = "tally"
  /\ \/ got[p].res = "ok" /\ ok' = ok + 1 /\ UNCHANGED fail
     \/ got[p].res # "ok" /\ fail' = fail + 1 /\ UNCHANGED ok
  /\ Leave(p)
  /\ UNCHANGED <<registry, runs, health, gate, active, total, done, sweep, at, stopped>>

Count(p) ==
  /\ pc[p] = "count"
  /\ done' = done + 1 /\ pc' = [pc EXCEPT ![p] = "idle"]
  /\ UNCHANGED <<registry, runs, health, gate, active, total, ok, fail, sweep, at, ctx, got, stopped>>

SweepStep(t) ==
  \/ Snapshot(t) \/ AbortSweep(t) \/ EndSweep(t) \/ Drain(t)
  \/ \E e \in Entry : Spawn(t, e)
ProbeStep(p) == Mark(p) \/ Call(p) \/ EndWait(p) \/ Apply(p) \/ Tally(p) \/ Count(p)

Next ==
  \/ ClearNodes \/ Stop
  \/ \E e \in Entry : Register(e) \/ SetProbe(e) \/ FinishRun(e) \/ \E c \in Client : Probe(c, e)
  \/ \E t \in Trigger : BeginSweep(t) \/ SweepStep(t)
  \/ \E p \in Prober : ProbeStep(p) \/ \E why \in {"deadline", "cancelled"} : EndContext(p, why)

Spec == Init /\ [][Next]_vars

\* The goroutines run on and the timeout of a sweep's probe fires.  A callback may hang.
FairSpec ==
  /\ Spec
  /\ \A t \in Trigger : WF_vars(SweepStep(t))
  /\ \A p \in Worker : WF_vars(ProbeStep(p)) /\ WF_vars(EndContext(p, "deadline"))

-----------------------------------------------------------------------------
(* Properties. *)

TypeOK ==
  /\ nodes \subseteq known /\ wired \subseteq known \cap Probed /\ known \subseteq Entry
  /\ gen \in [Entry -> 0..MaxRuns] /\ \A e \in Entry : run[e] \in {0, gen[e]}
  /\ results \in [Entry -> [1..MaxRuns -> {"running", "ok", "err", "cancelled"}]]
  /\ {sweepRunning, rerun, active, stopped} \subseteq BOOLEAN
  /\ tpc \in [Trigger -> {"idle", "snap", "spawn", "aborted", "drain"}]
  /\ todo \in [Trigger -> SUBSET Entry]
  /\ {total, done, ok, fail} \subseteq 0..Cardinality(Entry)
  /\ pc \in [Prober -> {"idle", "mark", "call", "wait", "apply", "tally", "count"}]
  /\ at \in [Prober -> Entry] /\ ctx \in [Prober -> {"live", "deadline", "cancelled"}]

\* "A protocol dial that ignores context can retain at most one callback goroutine per
\* entry, not one per HTTP request" (monitor/manager.go:74): whoever gives up or joins in.
OneCallback == \A e \in Entry : callbacks[e] <= 1

\* "A late caller from a previous run must not overwrite the health result of a newer
\* run" (monitor/manager.go:606): the generation of the result on display never goes down.
HealthMovesForward == [][\A e \in Entry : shown'[e] >= shown[e]]_vars

OneSweep == \A t \in Trigger : tpc[t] # "idle" => sweepRunning /\ \A u \in Trigger \ {t} : tpc[u] = "idle"

\* While a sweep is shown, its total is what is counted, what is being probed and what it
\* has not come to, and no result is counted for a node that is still being probed; the
\* dashboard's flag is off whenever nothing is swept.
ProgressExact ==
  /\ TypeOK
  /\ \A t \in Trigger : tpc[t] = "spawn" =>
       /\ active
       /\ total = done + Cardinality(todo[t]) + Cardinality({e \in Entry : pc[<<t, e>>] # "idle"})
       /\ ok + fail <= done + Cardinality({e \in Entry : pc[<<t, e>>] = "count"})
  /\ ~sweepRunning => ~active

\* Only one sweep runs at a time, and a trigger that arrives meanwhile is honoured: once
\* the gate is free again, every node that was registered at the last trigger, and still
\* is, was in the last sweep.
TriggersCovered ==
  /\ OneSweep
  /\ ~sweepRunning /\ ~stopped => (asked \cap nodes) \subseteq swept

\* A sweep ends although a callback never returns.
SweepEnds == active ~> ~active
=============================================================================
