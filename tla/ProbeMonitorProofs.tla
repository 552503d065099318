-------------------------- MODULE ProbeMonitorProofs --------------------------
(***************************************************************************)
(* Proofs about ProbeMonitor, for any sets of entries, triggers and        *)
(* clients and any bounds.                                                 *)
(*                                                                         *)
(* GateInv: the gate is held by the one trigger that sweeps.  TriggerInv:  *)
(* a trigger not covered yet is on record.  RunInv: callbacks belong to    *)
(* the run of their generation.  ProgressInv: an entry of the sweep is to  *)
(* do, in progress or done, and the counters add up accordingly.           *)
(***************************************************************************)
EXTENDS ProbeMonitor, TLAPS, FiniteSetTheorems

(* The gate. *)

\* A place for every trigger; the sweep's places are reached through the gate only.
GateInv ==
  /\ tpc \in [Trigger -> {"idle", "snap", "spawn", "aborted", "drain"}]
  /\ OneSweep

\* A step of the gate or of a sweep keeps one sweep at a time.
LEMMA GateStep == GateInv /\ [Next]_vars => GateInv'
<1> SUFFICES ASSUME GateInv, [Next]_vars PROVE GateInv'
  OBVIOUS
<1>1. ASSUME NEW t \in Trigger, BeginSweep(t) PROVE GateInv'
  BY <1>1 DEF GateInv, OneSweep, BeginSweep
<1>2. ASSUME NEW t \in Trigger, SweepStep(t) PROVE GateInv'
  <2>1. CASE Snapshot(t) BY <2>1, <1>2 DEF GateInv, OneSweep, Snapshot, gate
  <2>2. CASE AbortSweep(t) BY <2>2, <1>2 DEF GateInv, OneSweep, AbortSweep, gate
  <2>3. CASE EndSweep(t) BY <2>3, <1>2 DEF GateInv, OneSweep, EndSweep, gate
  <2>4. CASE Drain(t) BY <2>4, <1>2 DEF GateInv, OneSweep, Drain
  <2>5. CASE \E e \in Entry : Spawn(t, e) BY <2>5, <1>2 DEF GateInv, OneSweep, Spawn, gate
  <2> QED BY <1>2, <2>1, <2>2, <2>3, <2>4, <2>5 DEF SweepStep
<1>3. CASE UNCHANGED <<sweepRunning, tpc>>
  BY <1>3 DEF GateInv, OneSweep
<1>4. ASSUME NEW p \in Prober, ProbeStep(p) PROVE UNCHANGED <<sweepRunning, tpc>>
  BY <1>4 DEF ProbeStep, Mark, Call, EndWait, Apply, Tally, Count, gate, sweep
<1>5. ASSUME NEW e \in Entry, Register(e) \/ SetProbe(e) \/ FinishRun(e) \/ \E c \in Client : Probe(c, e)
      PROVE UNCHANGED <<sweepRunning, tpc>>
  BY <1>5 DEF Register, SetProbe, FinishRun, Probe, gate, sweep
<1>6. ASSUME ClearNodes \/ Stop PROVE UNCHANGED <<sweepRunning, tpc>>
  BY <1>6 DEF ClearNodes, Stop, gate, sweep
<1>7. ASSUME NEW p \in Prober, NEW why, EndContext(p, why) PROVE UNCHANGED <<sweepRunning, tpc>>
  BY <1>7 DEF EndContext, gate, sweep
<1>8. CASE UNCHANGED vars
  BY <1>8, <1>3 DEF vars, gate, sweep
<1> QED BY <1>1, <1>2, <1>3, <1>4, <1>5, <1>6, <1>7, <1>8 DEF Next

\* Only one sweep runs at a time, however many goroutines call probeAllNodes.
THEOREM OneSweepAtATime == Spec => []OneSweep
<1>1. Init => GateInv
  BY DEF Init, GateInv, OneSweep
<1>2. GateInv => OneSweep
  BY DEF GateInv
<1> QED BY <1>1, <1>2, GateStep, PTL DEF Spec

-----------------------------------------------------------------------------
(* Triggers.  A trigger the running sweep has not covered yet is on record: *)
(* another pass is requested or a pass is about to read the nodes.          *)

Recorded == sweepRunning /\ (rerun \/ \E t \in Trigger : tpc[t] = "snap")

TriggerInv ==
  /\ GateInv
  /\ nodes \subseteq known /\ asked \subseteq known
  /\ stopped \/ Recorded \/ (asked \cap nodes) \subseteq swept

\* The steps of the gate, of a sweep and of the registry keep it.
LEMMA TriggerStep == TriggerInv /\ [Next]_vars => TriggerInv'
<1> SUFFICES ASSUME TriggerInv, [Next]_vars PROVE TriggerInv'
  OBVIOUS
<1>0. GateInv'
  BY GateStep DEF TriggerInv
<1>1. ASSUME NEW t \in Trigger, BeginSweep(t) PROVE TriggerInv'
  <2>1. Recorded'
    BY <1>1 DEF TriggerInv, GateInv, Recorded, BeginSweep
  <2> QED BY <1>0, <1>1, <2>1 DEF TriggerInv, BeginSweep, registry
<1>2. ASSUME NEW t \in Trigger, SweepStep(t) PROVE TriggerInv'
  <2>1. CASE Snapshot(t)
    BY <2>1, <1>0 DEF TriggerInv, Snapshot, registry, gate
  <2>2. CASE AbortSweep(t) \/ EndSweep(t) \/ \E e \in Entry : Spawn(t, e)
    <3>1. UNCHANGED <<registry, gate, swept, stopped>>
      BY <2>2 DEF AbortSweep, EndSweep, Spawn
    <3>2. tpc[t] # "snap"
      BY <2>2 DEF AbortSweep, EndSweep, Spawn
    <3>3. \A u \in Trigger \ {t} : tpc'[u] = tpc[u]
      BY <2>2 DEF AbortSweep, EndSweep, Spawn, TriggerInv, GateInv
    <3>4. Recorded => Recorded'
      BY <3>1, <3>2, <3>3 DEF Recorded, gate
    <3> QED BY <1>0, <3>1, <3>4 DEF TriggerInv, registry, gate
  <2>3. CASE Drain(t)
    <3>1. tpc[t] = "drain" /\ UNCHANGED <<registry, asked, swept, stopped>>
      BY <2>3 DEF Drain
    <3>2. CASE rerun /\ ~stopped
      <4>1. sweepRunning /\ sweepRunning' = sweepRunning /\ tpc'[t] = "snap"
        BY <2>3, <3>1, <3>2 DEF Drain, TriggerInv, GateInv, OneSweep
      <4> QED BY <1>0, <3>1, <4>1 DEF TriggerInv, Recorded, registry
    <3>3. CASE ~rerun /\ ~stopped
      <4>1. ~Recorded
        BY <3>1, <3>3 DEF Recorded, TriggerInv, GateInv, OneSweep
      <4> QED BY <1>0, <3>1, <3>3, <4>1 DEF TriggerInv, registry
    <3>4. CASE stopped
      BY <1>0, <3>1, <3>4 DEF TriggerInv, registry
    <3> QED BY <3>2, <3>3, <3>4
  <2> QED BY <1>2, <2>1, <2>2, <2>3 DEF SweepStep
<1>3. ASSUME NEW e \in Entry, Register(e) PROVE TriggerInv'
  <2>1. e \notin asked
    BY <1>3 DEF Register, TriggerInv
  <2>2. nodes' = nodes \cup {e} /\ known' = known \cup {e} /\ UNCHANGED <<gate, sweep, stopped>>
    BY <1>3 DEF Register
  <2>3. Recorded => Recorded'
    BY <2>2 DEF Recorded, gate, sweep
  <2> QED BY <1>0, <2>1, <2>2, <2>3 DEF TriggerInv, gate, sweep
<1>4. CASE ClearNodes
  BY <1>0, <1>4 DEF ClearNodes, TriggerInv, Recorded, gate, sweep
<1>5. CASE Stop
  BY <1>0, <1>5 DEF Stop, TriggerInv, registry, gate, sweep
<1>6. CASE UNCHANGED <<known, nodes, gate, sweep, stopped>>
  BY <1>0, <1>6 DEF TriggerInv, Recorded, gate, sweep
<1>7. ASSUME NEW p \in Prober, ProbeStep(p) PROVE UNCHANGED <<known, nodes, gate, sweep, stopped>>
  BY <1>7 DEF ProbeStep, Mark, Call, EndWait, Apply, Tally, Count, registry
<1>8. ASSUME NEW e \in Entry, SetProbe(e) \/ FinishRun(e) \/ \E c \in Client : Probe(c, e)
      PROVE UNCHANGED <<known, nodes, gate, sweep, stopped>>
  BY <1>8 DEF SetProbe, FinishRun, Probe, registry
<1>9. ASSUME NEW p \in Prober, NEW why, EndContext(p, why) PROVE UNCHANGED <<known, nodes, gate, sweep, stopped>>
  BY <1>9 DEF EndContext, registry
<1>10. CASE UNCHANGED vars
  BY <1>10, <1>6 DEF vars, registry
<1> QED BY <1>1, <1>2, <1>3, <1>4, <1>5, <1>6, <1>7, <1>8, <1>9, <1>10 DEF Next

\* probeAllNodes loses no trigger: when the gate is free, every node that was registered
\* at the last trigger and still is was in the last sweep.
THEOREM NoTriggerLost == Spec => []TriggersCovered
<1>1. Init => TriggerInv
  BY DEF Init, TriggerInv, GateInv, OneSweep
<1>2. TriggerInv => TriggersCovered
  BY DEF TriggerInv, GateInv, Recorded, TriggersCovered
<1> QED BY <1>1, <1>2, TriggerStep, PTL DEF Spec

-----------------------------------------------------------------------------
(* Runs and results. *)

\* The counter is ahead of what is shown and counts the running callback.
RunInv ==
  /\ gen \in [Entry -> Nat] /\ run \in [Entry -> Nat] /\ shown \in [Entry -> Nat]
  /\ callbacks \in [Entry -> Nat]
  /\ at \in [Prober -> Entry]
  /\ \A e \in Entry : shown[e] <= gen[e] /\ callbacks[e] = IF run[e] = 0 THEN 0 ELSE 1

\* A step keeps RunInv, and what is shown of a node does not become older.
LEMMA RunStep == RunInv /\ [Next]_vars => RunInv' /\ \A e \in Entry : shown'[e] >= shown[e]
<1> SUFFICES ASSUME RunInv, [Next]_vars PROVE RunInv' /\ \A e \in Entry : shown'[e] >= shown[e]
  OBVIOUS
<1>1. CASE UNCHANGED <<gen, run, shown, callbacks, at>>
  BY <1>1 DEF RunInv
<1>2. ASSUME NEW p \in Prober, Call(p) PROVE RunInv' /\ UNCHANGED shown
  <2>1. at[p] \in Entry
    BY DEF RunInv
  <2>2. CASE UNCHANGED runs
    BY <1>2, <2>2 DEF Call, RunInv, runs, health
  <2>3. CASE /\ run[at[p]] = 0
             /\ gen' = [gen EXCEPT ![at[p]] = @ + 1] /\ run' = [run EXCEPT ![at[p]] = gen[at[p]] + 1]
             /\ callbacks' = [callbacks EXCEPT ![at[p]] = @ + 1]
    <3>1. UNCHANGED <<shown, at>>
      BY <1>2 DEF Call, health
    <3> QED BY <2>1, <2>3, <3>1 DEF RunInv
  <2> QED BY <1>2, <2>2, <2>3 DEF Call
<1>3. ASSUME NEW e \in Entry, FinishRun(e) PROVE RunInv' /\ UNCHANGED shown
  BY <1>3 DEF FinishRun, RunInv, health, probing
<1>4. ASSUME NEW p \in Prober, Apply(p) PROVE RunInv' /\ \A e \in Entry : shown'[e] >= shown[e]
  <2>1. at[p] \in Entry
    BY DEF RunInv
  <2>2. UNCHANGED <<gen, run, callbacks, at>>
    BY <1>4 DEF Apply, runs
  <2>3. CASE UNCHANGED health
    BY <2>2, <2>3 DEF RunInv, health
  <2>4. CASE Current(p) /\ shown' = [shown EXCEPT ![at[p]] = got[p].gen]
    <3>1. shown' = [shown EXCEPT ![at[p]] = gen[at[p]]]
      BY <2>4 DEF Current
    <3> QED BY <2>1, <2>2, <3>1 DEF RunInv
  <2> QED BY <1>4, <2>3, <2>4 DEF Apply
<1>5. ASSUME NEW p \in Prober, Mark(p) \/ EndWait(p) \/ Tally(p) \/ Count(p)
      PROVE UNCHANGED <<gen, run, shown, callbacks, at>>
  BY <1>5 DEF Mark, EndWait, Tally, Count, runs, health
<1>6. ASSUME NEW c \in Client, NEW e \in Entry, Probe(c, e) PROVE RunInv' /\ UNCHANGED shown
  <2>1. c \in Prober
    BY DEF Prober
  <2> QED BY <1>6, <2>1 DEF Probe, RunInv, runs, health
<1>7. ASSUME NEW p \in Prober, NEW why, EndContext(p, why) PROVE UNCHANGED <<gen, run, shown, callbacks, at>>
  BY <1>7 DEF EndContext, health
<1>8. ASSUME NEW t \in Trigger, BeginSweep(t) \/ SweepStep(t) PROVE UNCHANGED <<gen, run, shown, callbacks, at>>
  BY <1>8 DEF BeginSweep, SweepStep, Snapshot, AbortSweep, EndSweep, Drain, Spawn, runs,
       health, probing
<1>9. ASSUME NEW e \in Entry, Register(e) \/ SetProbe(e) PROVE UNCHANGED <<gen, run, shown, callbacks, at>>
  BY <1>9 DEF Register, SetProbe, runs, health, probing
<1>10. ASSUME ClearNodes \/ Stop \/ UNCHANGED vars PROVE UNCHANGED <<gen, run, shown, callbacks, at>>
  BY <1>10 DEF ClearNodes, Stop, vars, runs, health, probing
<1>11. UNCHANGED shown => \A e \in Entry : shown'[e] >= shown[e]
  BY DEF RunInv
<1> QED BY <1>1, <1>2, <1>3, <1>4, <1>5, <1>6, <1>7, <1>8, <1>9, <1>10, <1>11 DEF Next, ProbeStep

\* The initial state satisfies it.
LEMMA RunInit == Init => RunInv
<1> SUFFICES ASSUME Init PROVE RunInv
  OBVIOUS
<1>1. (CHOOSE e \in Entry : TRUE) \in Entry
  BY ProbeConstants
<1>2. \A p \in Worker : p[2] \in Entry
  BY DEF Worker
<1> DEFINE place(p) == IF p \in Worker THEN p[2] ELSE CHOOSE e \in Entry : TRUE
<1>3. at = [p \in Prober |-> place(p)]
  BY DEF Init
<1>4. \A p \in Prober : place(p) \in Entry
  BY <1>1, <1>2
<1> HIDE DEF place
<1>5. at \in [Prober -> Entry]
  BY <1>3, <1>4
<1> QED BY <1>5 DEF Init, RunInv

\* waitProbe keeps at most one callback per node, whoever joins it or gives up.
THEOREM OneCallbackPerNode == Spec => []OneCallback
<1>1. RunInv => OneCallback
  BY DEF RunInv, OneCallback
<1> QED BY <1>1, RunInit, RunStep, PTL DEF Spec

\* applyProbeResult never puts back the result of an older run.
THEOREM ResultsMoveForward == Spec => HealthMovesForward
<1> QED BY RunInit, RunStep, PTL DEF Spec, HealthMovesForward

-----------------------------------------------------------------------------
(* The progress counters. *)

\* The entries whose goroutine of sweep t is under way, and those it has only to count.
Busy(t) == {e \in Entry : pc[<<t, e>>] # "idle"}
Counting(t) == {e \in Entry : pc[<<t, e>>] = "count"}

Sweeping(t) == tpc[t] \in {"spawn", "aborted"}

\* ProgressExact is not inductive: it needs that an entry waits for its goroutine or has one,
\* never both, that a sweep that is not running has none, and that an aborted sweep, whose
\* rest is not probed, counts no more than its total.
Balance(t) ==
  /\ done + Cardinality(todo[t]) + Cardinality(Busy(t)) <= total
  /\ tpc[t] = "spawn" => total = done + Cardinality(todo[t]) + Cardinality(Busy(t))
  /\ ok + fail <= done + Cardinality(Counting(t))

ProgressInv ==
  /\ TypeOK /\ OneSweep
  /\ \A t \in Trigger : /\ todo[t] \cap Busy(t) = {}
                        /\ tpc[t] # "spawn" => todo[t] = {}
                        /\ ~Sweeping(t) => Busy(t) = {}
                        /\ Sweeping(t) => active /\ Balance(t)
  /\ active => \E t \in Trigger : Sweeping(t)

CountersTyped == {total, done, ok, fail} \subseteq 0..Cardinality(Entry)

\* Everything but the counters keeps its type.
LEMMA TypeStep == TypeOK /\ [Next]_vars /\ CountersTyped' => TypeOK'
<1> SUFFICES ASSUME TypeOK, [Next]_vars, CountersTyped' PROVE TypeOK'
  OBVIOUS
<1> USE DEF CountersTyped
<1>1. ASSUME NEW e \in Entry, Register(e) \/ SetProbe(e) PROVE TypeOK'
  BY <1>1 DEF Register, SetProbe, TypeOK, runs, gate, progress, sweep, probing
<1>2. ASSUME ClearNodes \/ Stop \/ UNCHANGED vars PROVE TypeOK'
  BY <1>2 DEF ClearNodes, Stop, TypeOK, vars, registry, runs, gate, progress, sweep, probing
<1>3. ASSUME NEW e \in Entry, FinishRun(e) PROVE TypeOK'
  <2>1. run[e] \in 1..MaxRuns
    BY <1>3, ProbeConstants DEF FinishRun, TypeOK
  <2>2. PICK r \in {"ok", "err", "cancelled"} : results' = [results EXCEPT ![e][run[e]] = r]
    BY <1>3 DEF FinishRun
  <2>3. results' \in [Entry -> [1..MaxRuns -> {"running", "ok", "err", "cancelled"}]]
    BY <2>1, <2>2 DEF TypeOK
  <2>4. \A x \in Entry : run'[x] \in {0, gen'[x]}
    BY <1>3 DEF FinishRun, TypeOK
  <2> QED BY <1>3, <2>3, <2>4 DEF FinishRun, TypeOK, registry, gate, progress, sweep, probing
<1>4. ASSUME NEW c \in Client, NEW e \in Entry, Probe(c, e) PROVE TypeOK'
  <2>1. c \in Prober
    BY DEF Prober
  <2> QED BY <1>4, <2>1 DEF Probe, TypeOK, registry, runs, gate, progress, sweep
<1>5. ASSUME NEW t \in Trigger, BeginSweep(t) PROVE TypeOK'
  BY <1>5 DEF BeginSweep, TypeOK, registry, runs, progress, probing
<1>6. ASSUME NEW t \in Trigger, SweepStep(t) PROVE TypeOK'
  <2>1. CASE Snapshot(t)
    BY <2>1, ZenonT(40) DEF Snapshot, TypeOK, registry, runs, gate, progress, probing
  <2>2. CASE AbortSweep(t) \/ EndSweep(t)
    BY <2>2 DEF AbortSweep, EndSweep, TypeOK, registry, runs, gate, progress, probing
  <2>3. CASE Drain(t)
    BY <2>3 DEF Drain, TypeOK, registry, runs, progress, probing
  <2>4. ASSUME NEW e \in Entry, Spawn(t, e) PROVE TypeOK'
    BY <2>4 DEF Spawn, TypeOK, registry, runs, gate, progress
  <2> QED BY <1>6, <2>1, <2>2, <2>3, <2>4 DEF SweepStep
<1>7. ASSUME NEW p \in Prober, ProbeStep(p) PROVE TypeOK'
  <2>0. at[p] \in Entry
    BY DEF TypeOK
  <2>1. CASE Call(p)
    <3>1. CASE UNCHANGED runs
      BY <2>1, <3>1 DEF Call, Leave, TypeOK, registry, runs, gate, progress, sweep
    <3>2. CASE /\ run[at[p]] = 0 /\ gen[at[p]] < MaxRuns
               /\ gen' = [gen EXCEPT ![at[p]] = @ + 1] /\ run' = [run EXCEPT ![at[p]] = gen[at[p]] + 1]
               /\ pc' = [pc EXCEPT ![p] = "wait"] /\ UNCHANGED <<results, ctx>>
      <4>1. gen' \in [Entry -> 0..MaxRuns] /\ \A x \in Entry : run'[x] \in {0, gen'[x]}
        BY <2>0, <3>2, ProbeConstants DEF TypeOK
      <4> QED BY <2>1, <3>2, <4>1 DEF Call, TypeOK, registry, gate, progress, sweep
    <3> QED BY <2>1, <3>1, <3>2 DEF Call
  <2>2. CASE EndWait(p)
    BY <2>2 DEF EndWait, Take, Leave, TypeOK, registry, runs, gate, progress, sweep
  <2>3. CASE Apply(p)
    BY <2>3 DEF Apply, Leave, TypeOK, registry, runs, gate, progress, sweep
  <2>4. CASE Mark(p) \/ Tally(p)
    BY <2>4 DEF Mark, Tally, Leave, TypeOK, registry, runs, gate, sweep
  <2>5. CASE Count(p)
    BY <2>5 DEF Count, TypeOK, registry, runs, gate, sweep
  <2> QED BY <1>7, <2>1, <2>2, <2>3, <2>4, <2>5 DEF ProbeStep
<1>8. ASSUME NEW p \in Prober, NEW why \in {"deadline", "cancelled"}, EndContext(p, why) PROVE TypeOK'
  BY <1>8 DEF EndContext, TypeOK, registry, gate, progress, sweep
<1> QED BY <1>1, <1>2, <1>3, <1>4, <1>5, <1>6, <1>7, <1>8 DEF Next

\* The sets a sweep counts are finite: each is a set of entries.
LEMMA SweepSetsFinite ==
  ASSUME TypeOK, NEW t \in Trigger
  PROVE  /\ IsFiniteSet(todo[t]) /\ IsFiniteSet(Busy(t)) /\ IsFiniteSet(Counting(t))
         /\ Cardinality(todo[t]) \in Nat /\ Cardinality(Busy(t)) \in Nat /\ Cardinality(Counting(t)) \in Nat
         /\ Cardinality(Counting(t)) <= Cardinality(Busy(t)) /\ Cardinality(Entry) \in Nat
<1>1. todo[t] \subseteq Entry /\ Busy(t) \subseteq Entry /\ Counting(t) \subseteq Busy(t)
  BY DEF TypeOK, Busy, Counting
<1>2. IsFiniteSet(todo[t]) /\ IsFiniteSet(Busy(t))
  BY <1>1, ProbeConstants, FS_Subset
<1>3. IsFiniteSet(Counting(t)) /\ Cardinality(Counting(t)) <= Cardinality(Busy(t))
  BY <1>1, <1>2, FS_Subset
<1> QED BY <1>2, <1>3, ProbeConstants, FS_CardinalityType

\* A goroutine that goes on stays under way; one that comes to its count is one more to count.
LEMMA GoroutineGoesOn ==
  ASSUME TypeOK, NEW t \in Trigger, NEW e \in Entry, NEW l \in {"mark", "call", "wait", "apply", "tally", "count"},
         pc[<<t, e>>] \notin {"idle", "count"}, pc' = [pc EXCEPT ![<<t, e>>] = l]
  PROVE  /\ \A u \in Trigger : Busy(u)' = Busy(u) /\ (u # t => Counting(u)' = Counting(u))
         /\ Counting(t)' = IF l = "count" THEN Counting(t) \cup {e} ELSE Counting(t)
         /\ Cardinality(Counting(t)') = Cardinality(Counting(t)) + (IF l = "count" THEN 1 ELSE 0)
<1>1. \A u \in Trigger, x \in Entry :
        <<u, x>> \in Prober /\ pc'[<<u, x>>] = IF u = t /\ x = e THEN l ELSE pc[<<u, x>>]
  BY DEF TypeOK, Prober, Worker
<1>2. \A u \in Trigger : Busy(u)' = Busy(u) /\ (u # t => Counting(u)' = Counting(u))
  BY <1>1 DEF Busy, Counting
<1>3. Counting(t)' = IF l = "count" THEN Counting(t) \cup {e} ELSE Counting(t)
  BY <1>1 DEF Counting
<1>4. e \notin Counting(t)
  BY DEF Counting
<1>5. Cardinality(Counting(t) \cup {e}) = Cardinality(Counting(t)) + 1
  BY <1>4, SweepSetsFinite, FS_AddElement
<1> QED BY <1>2, <1>3, <1>5, SweepSetsFinite

\* A step of a client of waitProbe is no business of the sweep.
LEMMA ClientStaysOut ==
  ASSUME TypeOK, NEW c \in Client, NEW l, pc' = [pc EXCEPT ![c] = l]
  PROVE  \A u \in Trigger : Busy(u)' = Busy(u) /\ Counting(u)' = Counting(u)
<1>1. \A u \in Trigger, x \in Entry : <<u, x>> \in Prober /\ <<u, x>> # c
  BY ProbeConstants DEF Prober, Worker
<1> QED BY <1>1 DEF TypeOK, Busy, Counting

\* A step that moves no goroutine of a sweep and no counter.
LEMMA NoProgress ==
  ASSUME ProgressInv, [Next]_vars, UNCHANGED <<tpc, todo, progress>>,
         \A u \in Trigger : Busy(u)' = Busy(u) /\ Counting(u)' = Counting(u)
  PROVE  ProgressInv'
<1>1. CountersTyped'
  BY DEF ProgressInv, TypeOK, CountersTyped, progress
<1>2. TypeOK' /\ OneSweep'
  BY <1>1, TypeStep, GateStep DEF ProgressInv, GateInv, TypeOK
<1> QED BY <1>2 DEF ProgressInv, Balance, Sweeping, progress

\* The steps of a sweep that start no probe.
LEMMA TriggerKeepsProgress ==
  ASSUME ProgressInv, [Next]_vars, NEW t \in Trigger,
         BeginSweep(t) \/ Snapshot(t) \/ AbortSweep(t) \/ EndSweep(t) \/ Drain(t)
  PROVE  ProgressInv'
<1> USE DEF ProgressInv
<1>1. \A u \in Trigger : Busy(u)' = Busy(u) /\ Counting(u)' = Counting(u)
  BY DEF BeginSweep, Snapshot, AbortSweep, EndSweep, Drain, probing, Busy, Counting
<1>2. OneSweep'
  BY GateStep DEF GateInv, TypeOK
<1>3. tpc[t] # "idle" => \A u \in Trigger \ {t} : tpc[u] = "idle"
  BY DEF OneSweep
<1>5. CASE Snapshot(t) /\ ~(stopped \/ nodes = {})
  <2>1. /\ tpc[t] = "snap" /\ todo' = [todo EXCEPT ![t] = nodes] /\ tpc' = [tpc EXCEPT ![t] = "spawn"]
        /\ active' = TRUE /\ total' = Cardinality(nodes) /\ done' = 0 /\ ok' = 0 /\ fail' = 0
    BY <1>5 DEF Snapshot
  <2>2. IsFiniteSet(nodes) /\ Cardinality(nodes) \in Nat /\ Cardinality(nodes) <= Cardinality(Entry)
        /\ Cardinality(Entry) \in Nat
    <3>1. nodes \subseteq Entry
      BY DEF TypeOK
    <3> QED BY <3>1, ProbeConstants, FS_Subset, FS_CardinalityType
  <2>3. TypeOK'
    <3>1. CountersTyped'
      BY <2>1, <2>2 DEF CountersTyped
    <3> QED BY <3>1, TypeStep
  <2>4. Busy(t) = {} /\ Cardinality(Busy(t)) = 0
    <3>1. Busy(t) = {}
      BY <2>1 DEF Sweeping
    <3> QED BY <3>1, FS_EmptySet
  <2>5. /\ todo'[t] = nodes /\ tpc'[t] = "spawn"
        /\ \A u \in Trigger \ {t} : tpc'[u] = "idle" /\ todo'[u] = todo[u] /\ tpc[u] = "idle"
    BY <1>3, <2>1 DEF TypeOK
  <2>6. Balance(t)'
    BY <1>1, <2>1, <2>2, <2>4, <2>5, SweepSetsFinite DEF Balance
  <2> QED BY <1>1, <1>2, <2>1, <2>3, <2>4, <2>5, <2>6 DEF Sweeping
<1>4. CASE UNCHANGED <<total, done, ok, fail>>
  <2>1. TypeOK'
    BY <1>4, TypeStep DEF CountersTyped, TypeOK
  <2>2. CASE BeginSweep(t)
    <3>1. UNCHANGED <<todo, active>> /\ (UNCHANGED tpc \/ (~sweepRunning /\ tpc' = [tpc EXCEPT ![t] = "snap"]))
      BY <2>2 DEF BeginSweep, progress
    <3>2. CASE UNCHANGED tpc
      BY <1>1, <1>2, <1>4, <2>1, <3>1, <3>2 DEF Balance, Sweeping
    <3>3. CASE ~sweepRunning /\ tpc' = [tpc EXCEPT ![t] = "snap"]
      <4>1. \A u \in Trigger : tpc[u] = "idle" /\ ~Sweeping(u) /\ ~Sweeping(u)'
        BY <3>3 DEF OneSweep, Sweeping, TypeOK
      <4> QED BY <1>1, <1>2, <2>1, <3>1, <4>1 DEF Sweeping, TypeOK
    <3> QED BY <3>1, <3>2, <3>3
  <2>3. CASE Snapshot(t) /\ UNCHANGED <<todo, progress>> /\ tpc' = [tpc EXCEPT ![t] = "drain"]
    <3>1. \A u \in Trigger : ~Sweeping(u) /\ ~Sweeping(u)' /\ tpc'[u] # "spawn"
      BY <1>3, <2>3 DEF Snapshot, Sweeping, TypeOK
    <3> QED BY <1>1, <1>2, <2>1, <2>3, <3>1 DEF progress, Sweeping
  <2>4. CASE AbortSweep(t)
    <3>1. /\ tpc[t] = "spawn" /\ tpc' = [tpc EXCEPT ![t] = "aborted"] /\ todo' = [todo EXCEPT ![t] = {}]
          /\ UNCHANGED active
      BY <2>4 DEF AbortSweep, progress
    <3>2. todo'[t] = {} /\ tpc'[t] = "aborted" /\ \A u \in Trigger \ {t} : tpc'[u] = "idle" /\ todo'[u] = todo[u]
      BY <1>3, <3>1 DEF TypeOK
    <3>3. Balance(t)'
      <4>1. Cardinality(todo'[t]) = 0
        BY <3>2, FS_EmptySet
      <4>2. /\ done + Cardinality(todo[t]) + Cardinality(Busy(t)) <= total
            /\ ok + fail <= done + Cardinality(Counting(t)) /\ done \in Nat /\ total \in Nat
        BY <3>1, SweepSetsFinite DEF Balance, Sweeping, TypeOK
      <4> QED BY <1>1, <1>4, <3>2, <4>1, <4>2, SweepSetsFinite DEF Balance
    <3>4. active
      BY <3>1 DEF Sweeping
    <3> QED BY <1>1, <1>2, <1>3, <2>1, <3>1, <3>2, <3>3, <3>4 DEF Sweeping
  <2>5. CASE EndSweep(t)
    <3>1. /\ tpc[t] \in {"spawn", "aborted"} /\ tpc' = [tpc EXCEPT ![t] = "drain"] /\ UNCHANGED todo
          /\ todo[t] = {} /\ Busy(t) = {} /\ active' = FALSE
      BY <2>5 DEF EndSweep, Busy
    <3>2. \A u \in Trigger : ~Sweeping(u)' /\ (u # t => ~Sweeping(u))
      BY <1>3, <3>1 DEF Sweeping, TypeOK
    <3> QED BY <1>1, <1>2, <2>1, <3>1, <3>2 DEF Sweeping, TypeOK
  <2>6. CASE Drain(t)
    <3>1. tpc[t] = "drain" /\ UNCHANGED <<todo, active>> /\ \E l \in {"snap", "idle"} : tpc' = [tpc EXCEPT ![t] = l]
      BY <2>6 DEF Drain, progress
    <3>2. \A u \in Trigger : ~Sweeping(u) /\ ~Sweeping(u)'
      BY <1>3, <3>1 DEF Sweeping, TypeOK
    <3> QED BY <1>1, <1>2, <2>1, <3>1, <3>2 DEF Sweeping, TypeOK
  <2>7. CASE Snapshot(t) /\ ~(stopped \/ nodes = {})
    BY <1>5, <2>7
  <2> QED BY <2>2, <2>3, <2>4, <2>5, <2>6, <2>7 DEF Snapshot
<1> QED BY <1>4, <1>5 DEF BeginSweep, Snapshot, AbortSweep, EndSweep, Drain, progress

\* Starting a probe moves an entry from those to do to those in progress.
LEMMA SpawnKeepsProgress ==
  ASSUME ProgressInv, [Next]_vars, NEW t \in Trigger, NEW e \in Entry, Spawn(t, e)
  PROVE  ProgressInv'
<1> USE DEF ProgressInv
<1>0. OneSweep'
  BY GateStep DEF GateInv, TypeOK
<1>1. UNCHANGED <<tpc, progress>> /\ tpc[t] = "spawn" /\ e \in todo[t] /\ todo' = [todo EXCEPT ![t] = @ \ {e}]
  BY DEF Spawn
<1>2. PICK l \in {"call", "mark"} : pc' = [pc EXCEPT ![<<t, e>>] = l]
  BY DEF Spawn
<1>3. \A u \in Trigger, x \in Entry :
        <<u, x>> \in Prober /\ pc'[<<u, x>>] = IF u = t /\ x = e THEN l ELSE pc[<<u, x>>]
  BY <1>2 DEF TypeOK, Prober, Worker
<1>4. pc[<<t, e>>] = "idle"
  BY <1>1 DEF Busy
<1>5. /\ Busy(t)' = Busy(t) \cup {e} /\ \A u \in Trigger \ {t} : Busy(u)' = Busy(u)
      /\ \A u \in Trigger : Counting(u)' = Counting(u)
  BY <1>3, <1>4 DEF Busy, Counting
<1>6. todo'[t] = todo[t] \ {e} /\ \A u \in Trigger \ {t} : todo'[u] = todo[u]
  BY <1>1 DEF TypeOK
<1>7. Cardinality(todo'[t]) = Cardinality(todo[t]) - 1
  BY <1>1, <1>6, SweepSetsFinite, FS_RemoveElement
<1>8. Cardinality(Busy(t)') = Cardinality(Busy(t)) + 1
  <2>1. e \notin Busy(t)
    BY <1>4 DEF Busy
  <2> QED BY <1>5, <2>1, SweepSetsFinite, FS_AddElement, ZenonT(40)
<1>9. TypeOK'
  BY <1>1, TypeStep DEF CountersTyped, TypeOK, progress
<1>10. Balance(t)'
  <2>1. Balance(t) /\ done \in Nat /\ total \in Nat
    BY <1>1, SweepSetsFinite DEF Sweeping, TypeOK
  <2> QED BY <1>1, <1>5, <1>7, <1>8, <2>1, SweepSetsFinite DEF Balance, progress
<1>11. \A u \in Trigger \ {t} : tpc[u] = "idle"
  BY <1>1 DEF OneSweep
<1>12. todo'[t] \cap Busy(t)' = {} /\ todo'[t] \subseteq Entry
  BY <1>5, <1>6, <1>9 DEF TypeOK
<1> QED BY <1>0, <1>1, <1>5, <1>6, <1>9, <1>10, <1>11, <1>12 DEF Sweeping, progress

\* A goroutine of a sweep: it goes on, it has a result to count (Mark, Tally), or is counted.
LEMMA WorkerKeepsProgress ==
  ASSUME ProgressInv, [Next]_vars, NEW t \in Trigger, NEW e \in Entry, ProbeStep(<<t, e>>)
  PROVE  ProgressInv'
<1> DEFINE p == <<t, e>>
<1>a. TypeOK /\ OneSweep
  BY DEF ProgressInv
<1>b. p \in Prober /\ p \in Worker /\ p \notin Client
  BY ProbeConstants DEF Prober, Worker
<1> HIDE DEF p
<1>c. UNCHANGED <<tpc, todo, active, total>> /\ pc[p] # "idle"
  BY DEF p, ProbeStep, Mark, Call, EndWait, Apply, Tally, Count, sweep, progress
<1>0. p \in Prober /\ p \in Worker /\ p \notin Client /\ UNCHANGED <<tpc, todo, active, total>> /\ pc[p] # "idle"
  BY <1>b, <1>c
<1>1. OneSweep'
  BY <1>a, GateStep DEF GateInv, TypeOK
<1>2. e \in Busy(t) /\ Sweeping(t)
  BY <1>0 DEF p, Busy, ProgressInv
<1>3. \A u \in Trigger \ {t} : tpc[u] = "idle" /\ ~Sweeping(u)
  BY <1>2, <1>a DEF OneSweep, Sweeping
<1>4. /\ Balance(t) /\ active /\ done \in Nat /\ total \in Nat /\ ok \in Nat /\ fail \in Nat
      /\ total <= Cardinality(Entry)
  BY <1>2, <1>a, SweepSetsFinite DEF TypeOK, ProgressInv
<1>d. /\ Cardinality(todo[t]) \in Nat /\ Cardinality(Busy(t)) \in Nat /\ Cardinality(Counting(t)) \in Nat
      /\ Cardinality(Entry) \in Nat /\ IsFiniteSet(Busy(t)) /\ IsFiniteSet(Counting(t))
  BY <1>a, SweepSetsFinite
<1>5. CASE Count(p)
  <2>1. pc[p] = "count" /\ pc' = [pc EXCEPT ![p] = "idle"] /\ done' = done + 1 /\ UNCHANGED <<ok, fail>>
    BY <1>5 DEF Count
  <2>2. \A u \in Trigger, x \in Entry :
          <<u, x>> \in Prober /\ pc'[<<u, x>>] = IF u = t /\ x = e THEN "idle" ELSE pc[<<u, x>>]
    BY <1>a, <2>1 DEF p, TypeOK, Prober, Worker
  <2>3. /\ Busy(t)' = Busy(t) \ {e} /\ Counting(t)' = Counting(t) \ {e} /\ e \in Counting(t)
        /\ \A u \in Trigger \ {t} : Busy(u)' = Busy(u) /\ Counting(u)' = Counting(u)
    BY <2>1, <2>2 DEF p, Busy, Counting
  <2>4. /\ Cardinality(Busy(t)') = Cardinality(Busy(t)) - 1
        /\ Cardinality(Counting(t)') = Cardinality(Counting(t)) - 1
    BY <1>2, <1>d, <2>3, FS_RemoveElement, ZenonT(40)
  <2>5. Balance(t)' /\ done' <= total
    <3>1. /\ Cardinality(Busy(t)') = Cardinality(Busy(t)) - 1 /\ Cardinality(todo'[t]) = Cardinality(todo[t])
          /\ Cardinality(Counting(t)') = Cardinality(Counting(t)) - 1
          /\ done' = done + 1 /\ total' = total /\ tpc'[t] = tpc[t] /\ ok' = ok /\ fail' = fail
      BY <1>c, <2>1, <2>4
    <3>2. Cardinality(Busy(t)) >= 1
      <4>1. Cardinality(Busy(t) \ {e}) \in Nat
        BY <1>d, FS_RemoveElement, FS_CardinalityType
      <4> QED BY <1>d, <2>3, <3>1, <4>1
    <3>3. done \in Nat /\ total \in Nat /\ ok \in Nat /\ fail \in Nat
      BY <1>4
    <3> QED BY <1>4, <1>d, <3>1, <3>2, <3>3 DEF Balance
  <2>6. TypeOK'
    <3>1. CountersTyped'
      <4>1. {total, done, ok, fail} \subseteq 0..Cardinality(Entry) /\ done' \in 0..Cardinality(Entry)
        BY <1>a, <1>4, <1>d, <2>1, <2>5 DEF TypeOK
      <4> QED BY <1>c, <2>1, <4>1 DEF CountersTyped
    <3> QED BY <1>a, <3>1, TypeStep
  <2> QED BY <1>c, <1>1, <1>2, <1>3, <1>4, <2>3, <2>5, <2>6 DEF ProgressInv, Sweeping
<1>6. CASE ~Count(p)
  <2>1. pc[p] \notin {"idle", "count"} /\ done' = done
    BY <1>6 DEF p, ProbeStep, Mark, Call, EndWait, Apply, Tally, progress
  <2>2. PICK l \in {"mark", "call", "wait", "apply", "tally", "count"} :
          /\ pc' = [pc EXCEPT ![p] = l]
          /\ \/ UNCHANGED <<ok, fail>>
             \/ l = "count" /\ ok' = ok + 1 /\ UNCHANGED fail
             \/ l = "count" /\ fail' = fail + 1 /\ UNCHANGED ok
    BY <1>0, <1>6 DEF p, ProbeStep, Mark, Call, EndWait, Apply, Tally, Take, Leave, progress
  <2>3. /\ \A u \in Trigger : Busy(u)' = Busy(u) /\ (u # t => Counting(u)' = Counting(u))
        /\ Cardinality(Counting(t)') = Cardinality(Counting(t)) + (IF l = "count" THEN 1 ELSE 0)
    BY <1>a, <2>1, <2>2, GoroutineGoesOn DEF p
  <2>4. ok' \in Nat /\ fail' \in Nat /\ ok' + fail' <= done + Cardinality(Counting(t)')
    BY <1>4, <1>d, <2>2, <2>3 DEF Balance
  <2>5. Balance(t)'
    BY <1>c, <1>4, <2>1, <2>3, <2>4 DEF Balance
  <2>6. Counting(t)' \subseteq Busy(t)' /\ Cardinality(Counting(t)') <= Cardinality(Busy(t)')
    <3>1. Counting(t)' \subseteq Busy(t)'
      BY DEF Counting, Busy
    <3> QED BY <1>d, <2>3, <3>1, FS_Subset
  <2>7. ok' + fail' <= total
    <3>1. Cardinality(Counting(t)') \in Nat
      BY <1>d, <2>3
    <3>2. Cardinality(Counting(t)') <= Cardinality(Busy(t))
      BY <2>3, <2>6
    <3> QED BY <1>4, <1>d, <2>4, <3>1, <3>2 DEF Balance
  <2>8. ok' <= total /\ fail' <= total
    <3>1. ok' \in Nat /\ fail' \in Nat /\ total \in Nat
      BY <1>4, <2>4
    <3>2. \A a, b, c \in Nat : a + b <= c => a <= c /\ b <= c
      OBVIOUS
    <3> QED BY <2>7, <3>1, <3>2
  <2>9. TypeOK'
    <3>1. CountersTyped'
      <4>1. done \in 0..Cardinality(Entry) /\ total \in 0..Cardinality(Entry)
        BY <1>a DEF TypeOK
      <4> QED BY <1>c, <1>4, <1>d, <2>1, <2>4, <2>8, <4>1 DEF CountersTyped
    <3> QED BY <1>a, <3>1, TypeStep
  <2> QED BY <1>c, <1>1, <1>2, <1>3, <1>4, <2>3, <2>5, <2>9 DEF ProgressInv, Sweeping
<1> QED BY <1>5, <1>6

\* A manual probe is no part of a sweep's counters.
ClientsProbe == \A c \in Client : pc[c] \notin {"mark", "tally", "count"}

\* A manual client never counts as a worker of a sweep.
LEMMA ClientStep == TypeOK /\ ClientsProbe /\ [Next]_vars => ClientsProbe'
<1> SUFFICES ASSUME TypeOK, ClientsProbe, [Next]_vars PROVE ClientsProbe'
  OBVIOUS
<1>0. \A c \in Client : c \in Prober /\ c \notin Worker
  BY ProbeConstants DEF Prober, Worker
<1>1. CASE UNCHANGED pc
  BY <1>1 DEF ClientsProbe
<1>2. ASSUME NEW p \in Prober, ProbeStep(p) PROVE ClientsProbe'
  BY <1>0, <1>2 DEF ClientsProbe, TypeOK, ProbeStep, Mark, Call, EndWait, Apply, Tally,
       Count, Take, Leave
<1>3. ASSUME NEW c \in Client, NEW e \in Entry, Probe(c, e) PROVE ClientsProbe'
  BY <1>0, <1>3 DEF ClientsProbe, TypeOK, Probe
<1>4. ASSUME NEW t \in Trigger, BeginSweep(t) \/ SweepStep(t) PROVE ClientsProbe'
  <2>1. CASE \E e \in Entry : Spawn(t, e)
    BY <1>0, <2>1 DEF ClientsProbe, TypeOK, Spawn, Worker
  <2> QED BY <1>1, <1>4, <2>1 DEF BeginSweep, SweepStep, Snapshot, AbortSweep, EndSweep,
       Drain, probing
<1> QED BY <1>1, <1>2, <1>3, <1>4
        DEF Next, ClearNodes, Stop, Register, SetProbe, FinishRun, EndContext, probing, vars

\* Every step keeps the balance of the counters.
LEMMA ProgressStep == ProgressInv /\ ClientsProbe /\ [Next]_vars => ProgressInv'
<1> SUFFICES ASSUME ProgressInv, ClientsProbe, [Next]_vars PROVE ProgressInv'
  OBVIOUS
<1>0. TypeOK
  BY DEF ProgressInv
<1>1. CASE UNCHANGED <<tpc, todo, progress, pc>>
  BY <1>1, NoProgress DEF Busy, Counting
<1>2. ASSUME NEW c \in Client, ProbeStep(c) \/ \E e \in Entry : Probe(c, e) PROVE ProgressInv'
  <2>1. c \notin Worker
    BY ProbeConstants DEF Worker
  <2>2. pc[c] \notin {"mark", "tally", "count"}
    BY DEF ClientsProbe
  <2>3. UNCHANGED <<tpc, todo, progress>> /\ \E l : pc' = [pc EXCEPT ![c] = l]
    BY <1>2, <2>1, <2>2
       DEF ProbeStep, Mark, Call, EndWait, Apply, Tally, Count, Take, Leave, Probe, sweep,
            progress
  <2> QED BY <1>0, <2>3, ClientStaysOut, NoProgress
<1>3. ASSUME NEW p \in Worker, ProbeStep(p) PROVE ProgressInv'
  <2>1. PICK t \in Trigger, e \in Entry : p = <<t, e>>
    BY DEF Worker
  <2> QED BY <1>3, <2>1, WorkerKeepsProgress
<1>4. ASSUME NEW t \in Trigger, BeginSweep(t) \/ SweepStep(t) PROVE ProgressInv'
  BY <1>4, TriggerKeepsProgress, SpawnKeepsProgress DEF SweepStep
<1>5. ASSUME NEW e \in Entry, Register(e) \/ SetProbe(e) \/ FinishRun(e) PROVE ProgressInv'
  BY <1>1, <1>5 DEF Register, SetProbe, FinishRun, sweep, probing
<1>6. ASSUME NEW p \in Prober, NEW why, EndContext(p, why) PROVE ProgressInv'
  BY <1>1, <1>6 DEF EndContext, sweep
<1>7. ASSUME ClearNodes \/ Stop \/ UNCHANGED vars PROVE ProgressInv'
  BY <1>1, <1>7 DEF ClearNodes, Stop, vars, sweep, probing
<1> QED BY <1>2, <1>3, <1>4, <1>5, <1>6, <1>7 DEF Next, Prober

\* No sweep runs and the counters are zero.
LEMMA ProgressInit == Init => ProgressInv
<1> SUFFICES ASSUME Init PROVE ProgressInv
  OBVIOUS
<1>1. at \in [Prober -> Entry]
  BY RunInit DEF RunInv
<1>2. \A t \in Trigger : Busy(t) = {} /\ todo[t] = {} /\ ~Sweeping(t)
  BY DEF Init, Busy, Prober, Worker, Sweeping
<1>3. 0 \in 0..Cardinality(Entry)
  BY ProbeConstants, FS_CardinalityType
<1>4. TypeOK
  <2>1. /\ gen \in [Entry -> 0..MaxRuns] /\ \A e \in Entry : run[e] \in {0, gen[e]}
        /\ results \in [Entry -> [1..MaxRuns -> {"running", "ok", "err", "cancelled"}]]
    BY ProbeConstants DEF Init
  <2>2. {sweepRunning, rerun, active, stopped} \subseteq BOOLEAN
    BY DEF Init
  <2> QED BY <1>1, <1>3, <2>1, <2>2 DEF Init, TypeOK
<1> QED BY <1>2, <1>4 DEF Init, ProgressInv, OneSweep

\* The dashboard's counters add up while a sweep is shown, whatever is registered, cleared or
\* given up meanwhile, and its flag is off when nothing is swept (runProbeSweep).
THEOREM ProgressIsExact == Spec => []ProgressExact
<1>1. ProgressInv => ProgressExact
  BY DEF ProgressInv, ProgressExact, Balance, Sweeping, Busy, Counting, OneSweep
<1>2. Init => ClientsProbe
  BY DEF Init, ClientsProbe, Prober
<1>3. ProgressInv => TypeOK
  BY DEF ProgressInv
<1> QED BY <1>1, <1>2, <1>3, ProgressInit, ProgressStep, ClientStep, PTL DEF Spec
=============================================================================
