---------------------------- MODULE MemberHealth ----------------------------
(***************************************************************************)
(* One upstream node's health while dials, probes, selections and the      *)
(* operator act on it at the same time.  Each of them runs as a thread of  *)
(* up to three steps, as the code does: it may read the clock before it    *)
(* takes the member's mutex, it changes the record inside the mutex, and   *)
(* it copies the outcome to the monitor's entry (what the dashboard and    *)
(* the export show) after the mutex is free again.  A start, a reload or a *)
(* rollback of the box gives the node a fresh record and a fresh entry.    *)
(***************************************************************************)
EXTENDS MemberState

CONSTANTS Thread,
          Kinds,          \* the failure kinds the node's dials run into
          PinFaults,      \* TRUE when session pins dial through this node
          BanLengths,     \* durations the operator asks for, {} for no operator
          MaxTime         \* bound: the clock stops here

ASSUME MaxTimeIsNatural == MaxTime \in Nat
ASSUME InputsTyped ==
  /\ Kinds \subseteq FailureKind /\ PinFaults \in BOOLEAN
  /\ BanLengths \subseteq Nat \ {0}

VARIABLES
  now,
  member,         \* sharedMemberState
  view,           \* monitor entry: blacklist flag and expiry
  job,            \* job[t]: the operation thread t is in, or Idle
  operatorUntil,  \* history: end of the operator's ban in force, 0 if none
  coolingUntil,   \* history: end of the cooldown in force, 0 if none or if a ban at
                  \* least as long, the ban of a failed pin or the operator took over
  crossed         \* history: the latest update of the ban found another one not yet
                  \* copied to the entry

vars == <<now, member, view, job, operatorUntil, coolingUntil, crossed>>
history == <<operatorUntil, coolingUntil>>

Op == {"idle", "pinFailure", "check", "autoRelease", "operatorBan", "late", "lateBan",
       "showBan", "showClear", "showOperatorBan"}
JobWithLength(op, arg, length) == [op |-> op, arg |-> arg, length |-> length]
Job(op, arg) == JobWithLength(op, arg, 0)
Idle == Job("idle", 0)
Late == Job("late", 0)   \* an operator's ban that holds the entry of before a reset
NotBanned == [banned |-> FALSE, until |-> 0]
Banned(until) == [banned |-> TRUE, until |-> until]

Init ==
  /\ now = 1
  /\ member = Healthy
  /\ view = NotBanned
  /\ job = [t \in Thread |-> Idle]
  /\ operatorUntil = 0 /\ coolingUntil = 0 /\ crossed = FALSE

\* The cooldown in force once a ban ending at `until` was asked for.
TakenOver(until, cooling) ==
  IF member.banned /\ member.until > until THEN coolingUntil ELSE cooling

Set(t, j) == job' = [job EXCEPT ![t] = j]

\* recordFailure reads the clock inside the mutex.
RecordFailureStep(t, kind) ==
  /\ job[t] = Idle
  /\ member' = RecordFailure(member, kind, now)
  /\ Set(t, IF Bans(member, kind) THEN Job("showBan", member'.until) ELSE Idle)
  /\ coolingUntil' =
       IF kind # "permanent" THEN TakenOver(now + CooldownFor(kind), now + CooldownFor(kind))
       ELSE IF Bans(member, kind) THEN TakenOver(now + BlacklistDuration, 0)
       ELSE coolingUntil
  /\ UNCHANGED <<now, view, operatorUntil>>

\* blacklistNow computes the expiry before it takes the mutex.  It keeps the expiry of
\* a longer cooldown but not its nature: from here on the automatic paths may lift it.
BeginPinFailure(t) ==
  /\ PinFaults
  /\ job[t] = Idle
  /\ Set(t, Job("pinFailure", now + BlacklistDuration))
  /\ UNCHANGED <<now, member, view, history>>

PinFailure(t) ==
  /\ job[t].op = "pinFailure"
  /\ member' = BlacklistNow(member, job[t].arg)
  /\ Set(t, Job("showBan", member'.until))
  /\ coolingUntil' = 0
  /\ UNCHANGED <<now, view, operatorUntil>>

\* recordSuccess; the monitor's counters are not ban state.
Success(t) ==
  /\ job[t] = Idle
  /\ member' = RecordSuccess(member)
  /\ UNCHANGED <<now, view, job, history>>

\* A selection reads the clock once and asks every candidate about that time.
BeginCheck(t) ==
  /\ job[t] = Idle
  /\ Set(t, Job("check", now))
  /\ UNCHANGED <<now, member, view, history>>

Check(t) ==
  /\ job[t].op = "check"
  /\ member' = IsBlacklisted(member, job[t].arg)
  /\ Set(t, IF RanOut(member, job[t].arg) THEN Job("showClear", 0) ELSE Idle)
  /\ UNCHANGED <<now, view, history>>

\* A successful probe, or the recovery of a pool whose members are all banned.
BeginAutoRelease(t) ==
  /\ job[t] = Idle
  /\ Set(t, Job("autoRelease", now))
  /\ UNCHANGED <<now, member, view, history>>

AutoRelease(t) ==
  /\ job[t].op = "autoRelease"
  /\ member' = ReleaseIfPermanent(member, job[t].arg)
  /\ Set(t, IF Parked(member, job[t].arg) THEN Idle ELSE Job("showClear", 0))
  /\ UNCHANGED <<now, view, history>>

\* Manager.Release -> forceRelease.
OperatorRelease(t) ==
  /\ BanLengths # {}
  /\ job[t] = Idle
  /\ member' = ForceRelease(member)
  /\ Set(t, Job("showClear", 0))
  /\ operatorUntil' = 0 /\ coolingUntil' = 0
  /\ UNCHANGED <<now, view>>

\* Manager.ManualBlacklist -> blacklistSharedMember, expiry computed first; the
\* entry is marked afterwards, from a second reading of the clock.
BeginOperatorBan(t, d) ==
  /\ job[t] = Idle
  /\ Set(t, JobWithLength("operatorBan", now + d, d))
  /\ UNCHANGED <<now, member, view, history>>

\* A ban that took the entry before a reset and looks the record up after it marks an
\* entry nobody sees any more.
BeginLateBan(t, d) ==
  /\ job[t] = Late
  /\ Set(t, Job("lateBan", now + d))
  /\ UNCHANGED <<now, member, view, history>>

OperatorBan(t) ==
  /\ job[t].op \in {"operatorBan", "lateBan"}
  /\ member' = BlacklistByOperator(member, job[t].arg)
  /\ Set(t, IF job[t].op = "lateBan" THEN Idle ELSE Job("showOperatorBan", job[t].length))
  /\ operatorUntil' = job[t].arg /\ coolingUntil' = 0
  /\ UNCHANGED <<now, view>>

\* The copy to the monitor's entry.
\* Seeded fault: the display keeps the longer of the two expiries.
ShowLonger(t) ==
  /\ job[t].op \in {"showBan", "showClear", "showOperatorBan"}
  /\ view' = IF job[t].op = "showClear" /\ view.until > now THEN view
             ELSE IF job[t].op = "showClear" THEN NotBanned
             ELSE Banned(job[t].arg + (IF job[t].op = "showBan" THEN 0 ELSE now))
  /\ Set(t, Idle)
  /\ UNCHANGED <<now, member, history>>

Show(t) ==
  /\ \/ job[t].op = "showBan"         /\ view' = Banned(job[t].arg)
     \/ job[t].op = "showClear"       /\ view' = NotBanned
     \/ job[t].op = "showOperatorBan" /\ view' = Banned(now + job[t].arg)
  /\ Set(t, Idle)
  /\ UNCHANGED <<now, member, history>>

Tick ==
  /\ now < MaxTime
  /\ now' = now + 1
  /\ UNCHANGED <<member, view, job, history>>

ThreadStep(t) ==
  \/ \E kind \in Kinds : RecordFailureStep(t, kind)
  \/ BeginPinFailure(t) \/ PinFailure(t)
  \/ Success(t)
  \/ BeginCheck(t) \/ Check(t)
  \/ BeginAutoRelease(t) \/ AutoRelease(t)
  \/ OperatorRelease(t)
  \/ \E d \in BanLengths : BeginOperatorBan(t, d) \/ BeginLateBan(t, d)
  \/ OperatorBan(t)
  \/ Show(t)

\* An update whose copy to the monitor's entry is still to come.
Showing(j) == j.op \in {"showBan", "showClear", "showOperatorBan"}
Cross ==
  crossed' = IF \E t \in Thread : Showing(job'[t]) /\ ~Showing(job[t])
             THEN \E t \in Thread : Showing(job[t])
             ELSE crossed \/ \E t \in Thread : job[t].op = "lateBan" /\ job'[t] = Idle

\* What a reset leaves in a thread: nothing, since what it was doing ends at the removed
\* record and entry; or an operator's ban that has its entry but not yet its record, the
\* one of before the reset or one registered a moment ago that cannot ban yet.
Left == {Idle} \cup UNION {{Late, Job("showOperatorBan", d)} : d \in BanLengths}

\* ResetSharedStateStore and ClearNodes: every ban and cooldown is forgotten.
Reset ==
  /\ member' = Healthy /\ view' = NotBanned
  /\ operatorUntil' = 0 /\ coolingUntil' = 0
  /\ job' \in [Thread -> Left]
  /\ crossed' = \E t \in Thread : Showing(job'[t])
  /\ UNCHANGED now

Next ==
  \/ Tick /\ Cross
  \/ \E t \in Thread : ThreadStep(t) /\ Cross
  \/ Reset
Spec == Init /\ [][Next]_vars

-----------------------------------------------------------------------------
TypeOK ==
  /\ now \in Nat
  /\ member \in Member /\ member.failures < Threshold
  /\ view \in [banned : BOOLEAN, until : Nat]
  /\ job \in [Thread -> [op : Op, arg : Nat, length : Nat]]
  /\ operatorUntil \in Nat /\ coolingUntil \in Nat /\ crossed \in BOOLEAN

\* "Operator bans outlive probes and the all-banned recovery path": until the
\* operator's ban ends, the operator releases the node or the box is reset, the node is
\* banned, whatever dials, probes and selections with an older clock reading do.  (Types
\* included: the permanent-failure count stays below the threshold.)
OperatorBanHolds ==
  /\ TypeOK
  /\ now < operatorUntil => member.banned /\ member.until >= operatorUntil

\* Recording a failure, a success or a selection never ends a running ban early
\* nor brings its expiry forward; only releases, the operator's own ban and a reset do.
OnlyReleasesShorten ==
  [][member.banned /\ now < member.until /\ ~(member'.banned /\ member'.until >= member.until)
     => Reset \/ \E t \in Thread : AutoRelease(t) \/ OperatorRelease(t) \/ OperatorBan(t)]_vars

\* "Live cooldowns now survive both automatic paths" (CHANGELOG.md:76): until a ban or
\* the operator takes over, a cooldown keeps the node out of rotation to its end, with
\* probes, recoveries and selections acting on clock readings of any age.
CooldownSurvives ==
  now < coolingUntil => member.banned /\ member.cooldown /\ member.until >= coolingUntil

Quiet == \A t \in Thread : job[t] = Idle

\* The dashboard and the export show the pool's ban (with an expiry that is late when the
\* operator's second clock reading is), unless two updates crossed on their way from the
\* member's lock to the entry or an operator's ban crossed a reset; and the next update
\* that runs alone repairs that.
MonitorInStep ==
  Quiet /\ ~crossed => /\ view.banned = member.banned
                       /\ member.banned => view.until >= member.until
=============================================================================
